---- MODULE Spec2Model ----
(***************************************************************************)
(* Model of the model-routing / fallback / cache core of sophia-intel:     *)
(*   services/portkey_client.py        AdvancedPortkeyClient               *)
(*   mcp/embedding/embedding_mcp_server.py  EmbeddingCache and             *)
(*                                     VendorIndependentEmbeddingMCP       *)
(*                                                                         *)
(* Units.  Costs are in thousandths of a dollar per million tokens,        *)
(* performance samples in hundredths, complexity in thousandths,           *)
(* temperature in hundredths, latencies in milliseconds, the clock in      *)
(* seconds, cost estimates in billionths of a dollar.                      *)
(***************************************************************************)
EXTENDS Integers, Sequences, FiniteSets, TLC

\* ------------------------------------------------------------------------
\* Generic helpers on sequences
\* ------------------------------------------------------------------------

Range(s) == { s[i] : i \in 1..Len(s) }

Min2(a, b) == IF a <= b THEN a ELSE b

Max2(a, b) == IF a >= b THEN a ELSE b

\* s[:n] of Python
Take(s, n) == SubSeq(s, 1, Min2(n, Len(s)))

\* s[:-1] of Python
Front(s) == SubSeq(s, 1, Len(s) - 1)

\* s[-n:] of Python (n > 0)
LastN(s, n) == IF Len(s) <= n THEN s ELSE SubSeq(s, Len(s) - n + 1, Len(s))

RECURSIVE SumSeq(_)
SumSeq(s) == IF s = <<>> THEN 0 ELSE s[1] + SumSeq(Tail(s))

\* ------------------------------------------------------------------------
\* Static model map (AdvancedPortkeyClient.__init__)
\* ------------------------------------------------------------------------

None == "None"

\* keys of self.models in dict (insertion) order
ModelOrder ==
    << "google/gemini-2.5-flash", "anthropic/claude-3-haiku",
       "openai/gpt-4o-mini", "deepseek/deepseek-v3",
       "anthropic/claude-3-sonnet", "openai/gpt-4o", "google/gemini-2.5-pro",
       "anthropic/claude-3-opus", "openai/gpt-5",
       "moonshot/kimi-k2", "alibaba/qwen-max-0428" >>

ModelNames == Range(ModelOrder)

ModelConfig(tier, cost, maxtok, strengths, provider) ==
    [ tier |-> tier, cost_per_1m_tokens |-> cost, max_tokens |-> maxtok,
      strengths |-> strengths, provider |-> provider ]

models ==
    ( "google/gemini-2.5-flash" :>
          ModelConfig("flash", 75, 8192, {"general", "code"}, "google")
   @@ "anthropic/claude-3-haiku" :>
          ModelConfig("flash", 250, 4096, {"general", "analysis"}, "anthropic")
   @@ "openai/gpt-4o-mini" :>
          ModelConfig("flash", 150, 4096, {"general", "code"}, "openai")
   @@ "deepseek/deepseek-v3" :>
          ModelConfig("flash", 140, 8192, {"code", "math"}, "deepseek")
   @@ "anthropic/claude-3-sonnet" :>
          ModelConfig("balanced", 3000, 8192,
                      {"analysis", "review", "general"}, "anthropic")
   @@ "openai/gpt-4o" :>
          ModelConfig("balanced", 5000, 8192,
                      {"code", "analysis", "general"}, "openai")
   @@ "google/gemini-2.5-pro" :>
          ModelConfig("balanced", 1250, 8192, {"math", "analysis"}, "google")
   @@ "anthropic/claude-3-opus" :>
          ModelConfig("power", 15000, 8192,
                      {"creative", "analysis", "review"}, "anthropic")
   @@ "openai/gpt-5" :>
          ModelConfig("power", 30000, 8192,
                      {"code", "math", "analysis"}, "openai")
   @@ "moonshot/kimi-k2" :>
          ModelConfig("specialist", 2000, 32768, {"analysis"}, "moonshot")
   @@ "alibaba/qwen-max-0428" :>
          ModelConfig("specialist", 1800, 8192, {"code", "math"}, "alibaba") )

\* self.cache_ttl, seconds
cache_ttl == 3600

\* stop_after_attempt(3) on _execute_request
RetryAttempts == 3

\* len(...) > 100 in _track_metrics
PerformanceCap == 100

\* other_tiers[:3] in _get_fallback_chain
FallbackOtherLimit == 3

\* ------------------------------------------------------------------------
\* Pure helpers of the client
\* ------------------------------------------------------------------------

\* [name for name in self.models if pred(name)]: comprehension in dict order
RECURSIVE FilterOrder(_, _)
FilterOrder(s, keep) ==
    IF s = <<>> THEN <<>>
    ELSE IF s[1] \in keep THEN <<s[1]>> \o FilterOrder(Tail(s), keep)
         ELSE FilterOrder(Tail(s), keep)

\* insert m into a cost-sorted list after every entry of cost <= cost(m)
RECURSIVE InsertByCost(_, _)
InsertByCost(m, s) ==
    IF s = <<>> THEN <<m>>
    ELSE IF models[s[1]].cost_per_1m_tokens <= models[m].cost_per_1m_tokens
         THEN <<s[1]>> \o InsertByCost(m, Tail(s))
         ELSE <<m>> \o s

\* list.sort(key=lambda m: self.models[m].cost_per_1m_tokens): stable, ascending
RECURSIVE SortByCost(_)
SortByCost(s) ==
    IF s = <<>> THEN <<>>
    ELSE InsertByCost(s[Len(s)], SortByCost(SubSeq(s, 1, Len(s) - 1)))

\* a chain whose same-tier part does not leave out the failed model
_get_fallback_chain_KeepsFailed(failed_model) ==
    IF failed_model \notin ModelNames THEN <<>>
    ELSE LET failed_tier == models[failed_model].tier
             same_tier == FilterOrder(ModelOrder,
                 { n \in ModelNames : models[n].tier = failed_tier })
             other_tiers == SortByCost(FilterOrder(ModelOrder,
                 { n \in ModelNames : models[n].tier # failed_tier }))
         IN  same_tier \o Take(other_tiers, FallbackOtherLimit)

\* a chain that keeps every model of the other tiers
_get_fallback_chain_NoLimit(failed_model) ==
    IF failed_model \notin ModelNames THEN <<>>
    ELSE LET failed_tier == models[failed_model].tier
             same_tier == FilterOrder(ModelOrder,
                 { n \in ModelNames : models[n].tier = failed_tier
                                      /\ n # failed_model })
             other_tiers == SortByCost(FilterOrder(ModelOrder,
                 { n \in ModelNames : models[n].tier # failed_tier }))
         IN  same_tier \o other_tiers

\* _get_fallback_chain(failed_model)
_get_fallback_chain(failed_model) ==
    IF failed_model \notin ModelNames THEN <<>>
    ELSE LET failed_tier == models[failed_model].tier
             same_tier == FilterOrder(ModelOrder,
                 { n \in ModelNames : models[n].tier = failed_tier
                                      /\ n # failed_model })
             other_tiers == SortByCost(FilterOrder(ModelOrder,
                 { n \in ModelNames : models[n].tier # failed_tier }))
         IN  same_tier \o Take(other_tiers, FallbackOtherLimit)

\* ------------------------------------------------------------------------
\* _select_optimal_model
\* ------------------------------------------------------------------------

\* tier_scores, in tenths
tier_scores(tier) ==
    CASE tier = "flash" -> 6
      [] tier = "balanced" -> 8
      [] tier = "power" -> 10
      [] tier = "specialist" -> 9

\* max(m.cost_per_1m_tokens for m in self.models.values())
max_cost ==
    CHOOSE c \in { models[n].cost_per_1m_tokens : n \in ModelNames } :
        \A n \in ModelNames : models[n].cost_per_1m_tokens <= c

\* The score of one candidate under the balanced preference, as the exact
\* rational  (whole + rem / den) / (10 * max_cost):
\*   tier_scores + 0.2 complexity match + 0.3 * avg_performance
\*   + 0.2 * (1 - cost / max_cost)
BalancedScore(model, complexity, perf) ==
    LET config == models[model]
        match ==
            \/ complexity < 300 /\ config.tier = "flash"
            \/ 300 <= complexity /\ complexity < 700 /\ config.tier = "balanced"
            \/ complexity >= 700 /\ config.tier \in {"power", "specialist"}
        base == tier_scores(config.tier) * max_cost
                + (IF match THEN 2 * max_cost ELSE 0)
                + 2 * (max_cost - config.cost_per_1m_tokens)
        hist == IF model \in DOMAIN perf THEN perf[model] ELSE <<>>
        den  == IF hist = <<>> THEN 1 ELSE 100 * Len(hist)
        p    == 3 * max_cost * SumSeq(hist)
    IN  [ whole |-> base + (p \div den), rem |-> p % den, den |-> den ]

ScoreGreater(a, b) ==
    \/ a.whole > b.whole
    \/ a.whole = b.whole /\ a.rem * b.den > b.rem * a.den

\* a sort that is not stable: among candidates of equal score the last one
\* in list order comes first
RECURSIVE BestScored_LastOfEquals(_, _, _, _)
BestScored_LastOfEquals(s, best, complexity, perf) ==
    IF s = <<>> THEN best
    ELSE IF ~ScoreGreater(BalancedScore(best, complexity, perf),
                          BalancedScore(s[1], complexity, perf))
         THEN BestScored_LastOfEquals(Tail(s), s[1], complexity, perf)
         ELSE BestScored_LastOfEquals(Tail(s), best, complexity, perf)

\* scored_models.sort(key=score, reverse=True)[0]: the first candidate, in
\* list order, that no other candidate beats (the sort is stable)
RECURSIVE BestScored(_, _, _, _)
BestScored(s, best, complexity, perf) ==
    IF s = <<>> THEN best
    ELSE IF ScoreGreater(BalancedScore(s[1], complexity, perf),
                         BalancedScore(best, complexity, perf))
         THEN BestScored(Tail(s), s[1], complexity, perf)
         ELSE BestScored(Tail(s), best, complexity, perf)

Returned(m) == [ raised |-> FALSE, model |-> m ]

\* suitable_models[i] on an empty list
IndexError == [ raised |-> TRUE, model |-> None ]

\* a selection whose thresholds are inclusive on the wrong side: "<=" against
\* 0.3 and 0.7 under cost, ">=" against 0.7 under performance
_select_optimal_model_ShiftedThresholds(task_type, complexity, urgency, cost_preference, perf) ==
    LET suitable_models ==
            IF task_type # None
            THEN FilterOrder(ModelOrder,
                     { n \in ModelNames : task_type \in models[n].strengths })
            ELSE ModelOrder
        n == Len(suitable_models)
    IN  IF n = 0 THEN IndexError
        ELSE IF cost_preference = "cost"
        THEN LET sorted == SortByCost(suitable_models)
             IN  IF complexity <= 300 THEN Returned(sorted[1])
                 ELSE IF complexity <= 700
                      THEN Returned(sorted[Min2(1, n - 1) + 1])
                      ELSE Returned(sorted[Min2(2, n - 1) + 1])
        ELSE IF cost_preference = "performance"
        THEN LET power_models == FilterOrder(suitable_models,
                     { m \in ModelNames : models[m].tier = "power" })
                 balanced_models == FilterOrder(suitable_models,
                     { m \in ModelNames : models[m].tier = "balanced" })
             IN  IF complexity >= 700 /\ power_models # <<>>
                 THEN Returned(power_models[1])
                 ELSE IF balanced_models # <<>>
                      THEN Returned(balanced_models[1])
                      ELSE Returned(suitable_models[1])
        ELSE Returned(BestScored(Tail(suitable_models), suitable_models[1],
                                 complexity, perf))

\* a selection that reads the cost-sorted list from its expensive end and
\* takes the last power or balanced candidate instead of the first
_select_optimal_model_FromTheEnd(task_type, complexity, urgency, cost_preference, perf) ==
    LET suitable_models ==
            IF task_type # None
            THEN FilterOrder(ModelOrder,
                     { n \in ModelNames : task_type \in models[n].strengths })
            ELSE ModelOrder
        n == Len(suitable_models)
    IN  IF n = 0 THEN IndexError
        ELSE IF cost_preference = "cost"
        THEN LET sorted == SortByCost(suitable_models)
             IN  IF complexity < 300 THEN Returned(sorted[n])
                 ELSE IF complexity < 700
                      THEN Returned(sorted[n - Min2(1, n - 1)])
                      ELSE Returned(sorted[n - Min2(2, n - 1)])
        ELSE IF cost_preference = "performance"
        THEN LET power_models == FilterOrder(suitable_models,
                     { m \in ModelNames : models[m].tier = "power" })
                 balanced_models == FilterOrder(suitable_models,
                     { m \in ModelNames : models[m].tier = "balanced" })
             IN  IF complexity > 700 /\ power_models # <<>>
                 THEN Returned(power_models[Len(power_models)])
                 ELSE IF balanced_models # <<>>
                      THEN Returned(balanced_models[Len(balanced_models)])
                      ELSE Returned(suitable_models[n])
        ELSE Returned(BestScored(Tail(suitable_models), suitable_models[1],
                                 complexity, perf))

\* _select_optimal_model(task_type, complexity, urgency, cost_preference);
\* perf is self.model_performance
_select_optimal_model(task_type, complexity, urgency, cost_preference, perf) ==
    LET suitable_models ==
            IF task_type # None
            THEN FilterOrder(ModelOrder,
                     { n \in ModelNames : task_type \in models[n].strengths })
            ELSE ModelOrder
        n == Len(suitable_models)
    IN  IF n = 0 THEN IndexError
        ELSE IF cost_preference = "cost"
        THEN LET sorted == SortByCost(suitable_models)
             IN  IF complexity < 300 THEN Returned(sorted[1])
                 ELSE IF complexity < 700
                      THEN Returned(sorted[Min2(1, n - 1) + 1])
                      ELSE Returned(sorted[Min2(2, n - 1) + 1])
        ELSE IF cost_preference = "performance"
        THEN LET power_models == FilterOrder(suitable_models,
                     { m \in ModelNames : models[m].tier = "power" })
                 balanced_models == FilterOrder(suitable_models,
                     { m \in ModelNames : models[m].tier = "balanced" })
             IN  IF complexity > 700 /\ power_models # <<>>
                 THEN Returned(power_models[1])
                 ELSE IF balanced_models # <<>>
                      THEN Returned(balanced_models[1])
                      ELSE Returned(suitable_models[1])
        ELSE Returned(BestScored(Tail(suitable_models), suitable_models[1],
                                 complexity, perf))

\* ------------------------------------------------------------------------
\* Requests, results, exceptions
\* ------------------------------------------------------------------------

\* a task tag that equals no member of any model's strengths. task_type is
\* not validated: a member of another enum (advanced_portkey_client.TaskType
\* has the same names) is accepted, has a .value, and is "in" no strengths list
UnlistedTask == "foreign"

\* a model name that is not a key of self.models
UnknownModel == "no/such-model"

Messages ==
    { << [ role |-> "user", content |-> "hi" ] >>,
      << [ role |-> "user", content |-> " hi" ] >> }

\* max_tokens = None is written 0 (both are falsy in `max_tokens or ...`)
NarrowRequests ==
    [ messages : Messages, task_type : {None},
      complexity : {500}, urgency : {500}, cost_preference : {"balanced"},
      force_model : {None, "openai/gpt-5"},
      enable_cache : BOOLEAN, enable_fallback : {TRUE},
      max_tokens : {0}, temperature : {70} ]

OneMessage == { << [ role |-> "user", content |-> "hi" ] >> }

\* every model forced in turn; one forced model under every selection input;
\* no usable force_model under every selection input
WideRequests ==
    [ messages : OneMessage, task_type : {None},
      complexity : {500}, urgency : {500}, cost_preference : {"balanced"},
      force_model : ModelNames,
      enable_cache : BOOLEAN, enable_fallback : BOOLEAN,
      max_tokens : {0, 256}, temperature : {70} ]
    \cup
    [ messages : OneMessage, task_type : {None, "creative", UnlistedTask},
      complexity : {100, 500, 900}, urgency : {500},
      cost_preference : {"cost", "balanced", "performance"},
      force_model : {None, UnknownModel, "openai/gpt-5"},
      enable_cache : BOOLEAN, enable_fallback : BOOLEAN,
      max_tokens : {0}, temperature : {70} ]

NoReq ==
    [ messages |-> <<>>, task_type |-> None, complexity |-> 0, urgency |-> 0,
      cost_preference |-> None, force_model |-> None, enable_cache |-> FALSE,
      enable_fallback |-> FALSE, max_tokens |-> 0, temperature |-> 0 ]

\* what the provider may answer to one POST
Contents == {"answer A", "answer B"}

Latencies(w) == IF w.requests = "wide" THEN {500, 2000} ELSE {500}

TokenCounts(w) == IF w.requests = "same" THEN {1000, 2000} ELSE {1000}

\* an absent numeric field of a result
Absent == 0 - 1

\* exceptions one transport attempt may end in: a non-200 status
\* (raise Exception(f"API error ...")) and a network error of httpx
ProviderErrors ==
    { [ type |-> "Exception", msg |-> "API error 500: upstream",
        cause |-> None ],
      [ type |-> "ConnectTimeout", msg |-> "timed out", cause |-> None ] }

NoExc == [ type |-> None, msg |-> None, cause |-> None ]

\* tenacity without reraise=True: after the last attempt the decorated call
\* raises RetryError(last_attempt); str() of it shows the attempt's Future,
\* not the message of the exception inside
RetryError(last) ==
    [ type |-> "RetryError",
      msg |-> "RetryError[<Future state=finished raised " \o last.type \o ">]",
      cause |-> last.msg ]

\* str(e)
Str(e) == e.msg

\* round(temperature, 1), in tenths (no input of the model ends in 5)
Round1(temperature) == (temperature + 5) \div 10

\* _generate_cache_key: sha256 of the JSON text of messages, task_type.value
\* and the rounded temperature; the digest is written as the triple it hashes
_generate_cache_key(messages, task_type, temperature) ==
    << messages, task_type, Round1(temperature) >>

\* _calculate_cost(model, usage), in billionths of a dollar
_calculate_cost(model, total_tokens) ==
    IF model \notin ModelNames THEN 0
    ELSE total_tokens * models[model].cost_per_1m_tokens

\* a success dict whose model_used is the name the gateway reports for the
\* model that answered, not the name that was asked for
SuccessResponse_UpstreamName(model, content, total_tokens, execution_time, timestamp) ==
    [ success |-> TRUE, model_used |-> "openrouter/" \o model,
      content |-> content, usage |-> total_tokens,
      cost_estimate |-> _calculate_cost(model, total_tokens),
      execution_time |-> execution_time, timestamp |-> timestamp,
      provider |-> models[model].provider, tier |-> models[model].tier,
      from_cache |-> FALSE, error |-> None, model_attempted |-> None ]

\* the dict _execute_request returns on status 200
SuccessResponse(model, content, total_tokens, execution_time, timestamp) ==
    [ success |-> TRUE, model_used |-> model, content |-> content,
      usage |-> total_tokens,
      cost_estimate |-> _calculate_cost(model, total_tokens),
      execution_time |-> execution_time, timestamp |-> timestamp,
      provider |-> models[model].provider, tier |-> models[model].tier,
      from_cache |-> FALSE, error |-> None, model_attempted |-> None ]

\* the dict smart_completion returns when all attempts failed
FailureResult(e, model, execution_time) ==
    [ success |-> FALSE, model_used |-> None, content |-> None,
      usage |-> Absent, cost_estimate |-> Absent,
      execution_time |-> execution_time, timestamp |-> Absent,
      provider |-> None, tier |-> None,
      from_cache |-> FALSE, error |-> Str(e), model_attempted |-> model ]

NoResult ==
    [ success |-> FALSE, model_used |-> None, content |-> None,
      usage |-> Absent, cost_estimate |-> Absent,
      execution_time |-> Absent, timestamp |-> Absent,
      provider |-> None, tier |-> None,
      from_cache |-> FALSE, error |-> None, model_attempted |-> None ]

\* _cache_response: cache_data = response.copy() without "execution_time"
CacheData(response) == [ response EXCEPT !.execution_time = Absent ]

\* _check_cache: data = json.loads(cached); data["from_cache"] = True
FromCache(data) == [ data EXCEPT !.from_cache = TRUE ]

\* ------------------------------------------------------------------------
\* State
\* ------------------------------------------------------------------------

\* bounds of the exploration
MaxCalls == 2

MaxTasks == 2

TickStep == 1800

MaxTime == 3600

Tasks == 1..MaxTasks

VARIABLES
    redis,              \* the Redis keyspace "llm_cache:*": key -> [data, expiry]
    model_performance,  \* self.model_performance: model -> list of samples
    metrics_history,    \* self.metrics_history
    now,                \* time.time()
    call,               \* per asyncio task: the state of its smart_completion
    returned,           \* what the finished calls returned, in order
    workload            \* which requests arrive, how many, how many at once

IdleCall ==
    [ pc |-> "idle", req |-> NoReq, start_time |-> 0, cache_key |-> None,
      selected |-> FALSE, model |-> None,
      phase |-> None, cur |-> None, fallback_models |-> <<>>,
      chain |-> <<>>, tries |-> 0,
      e |-> NoExc, response |-> NoResult, result |-> NoResult,
      attempts |-> <<>>, failed |-> <<>>, posts |-> 0 ]

\* every model forced in turn, with and without the fallback walk
ForcedRequests ==
    [ messages : OneMessage, task_type : {None},
      complexity : {500}, urgency : {500}, cost_preference : {"balanced"},
      force_model : ModelNames,
      enable_cache : {TRUE}, enable_fallback : BOOLEAN,
      max_tokens : {0}, temperature : {70} ]

\* one and the same request, sent by several callers at once
SameRequests ==
    [ messages : OneMessage, task_type : {None},
      complexity : {500}, urgency : {500}, cost_preference : {"balanced"},
      force_model : {"openai/gpt-5"},
      enable_cache : BOOLEAN, enable_fallback : {FALSE},
      max_tokens : {0}, temperature : {70} ]

\* the members of TaskType (lines 28-35), None and a tag no model lists
TaskTypes == {"code", "math", "creative", "analysis", "general", "review"}

\* complexity values on both sides of, and on, the thresholds 0.3 and 0.7 of
\* _select_optimal_model (in thousandths)
Complexities == {0, 299, 300, 301, 699, 700, 701, 1000}

\* requests that go through selection, under every selection input
SelectRequests ==
    [ messages : OneMessage,
      task_type : TaskTypes \cup {None, UnlistedTask},
      complexity : Complexities, urgency : {500},
      cost_preference : {"cost", "balanced", "performance"},
      force_model : {None},
      enable_cache : BOOLEAN, enable_fallback : {FALSE},
      max_tokens : {0}, temperature : {70} ]

\* requests that go through the scoring of the balanced preference
BalancedRequests ==
    [ messages : OneMessage,
      task_type : TaskTypes \cup {None, UnlistedTask},
      complexity : Complexities, urgency : {500},
      cost_preference : {"balanced"},
      force_model : {None},
      enable_cache : BOOLEAN, enable_fallback : {FALSE},
      max_tokens : {0}, temperature : {70} ]

Requests(w) ==
    IF w.requests = "narrow" THEN NarrowRequests
    ELSE IF w.requests = "forced" THEN ForcedRequests
    ELSE IF w.requests = "same" THEN SameRequests
    ELSE IF w.requests = "select" THEN SelectRequests
    ELSE IF w.requests = "balanced" THEN BalancedRequests
    ELSE WideRequests

InitClient ==
    /\ redis = << >>
    /\ model_performance = << >>
    /\ metrics_history = << >>
    /\ now = 0
    /\ call = [ p \in Tasks |-> IdleCall ]
    /\ returned = << >>

\* ------------------------------------------------------------------------
\* _track_metrics
\* ------------------------------------------------------------------------

\* min(1.0, 1.0 / max(0.1, response_time)) on success, 0.0 otherwise
PerformanceScore(success, response_time) ==
    IF success THEN Min2(100, 100000 \div Max2(100, response_time)) ELSE 0

\* _track_metrics keeping the first 100 samples instead of the last 100
TrackedPerformance_KeepsOldest(perf, model, response) ==
    LET old == IF model \in DOMAIN perf THEN perf[model] ELSE << >>
        appended == Append(old, PerformanceScore(response.success,
                                                 response.execution_time))
        kept == IF Len(appended) > PerformanceCap
                THEN Take(appended, PerformanceCap) ELSE appended
    IN  [ m \in DOMAIN perf \cup {model} |->
            IF m = model THEN kept ELSE perf[m] ]

\* self.model_performance after _track_metrics(model, response, ...)
TrackedPerformance(perf, model, response) ==
    LET old == IF model \in DOMAIN perf THEN perf[model] ELSE << >>
        appended == Append(old, PerformanceScore(response.success,
                                                 response.execution_time))
        kept == IF Len(appended) > PerformanceCap
                THEN LastN(appended, PerformanceCap) ELSE appended
    IN  [ m \in DOMAIN perf \cup {model} |->
            IF m = model THEN kept ELSE perf[m] ]

\* self.metrics_history after _track_metrics(model, response, ...)
TrackedHistory(hist, model, response, task_type, timestamp) ==
    Append(hist,
        [ model_used |-> model, response_time |-> response.execution_time,
          tokens_used |-> Max2(0, response.usage),
          cost |-> Max2(0, response.cost_estimate),
          success |-> response.success, timestamp |-> timestamp,
          task_type |-> task_type ])

\* _track_metrics that drops the new sample when the model's list is full
_track_metrics_DropsWhenFull(model, response, task_type) ==
    /\ metrics_history' = TrackedHistory(metrics_history, model, response,
                                         task_type, now)
    /\ model_performance' =
          IF /\ model \in DOMAIN model_performance
             /\ Len(model_performance[model]) >= PerformanceCap
          THEN model_performance
          ELSE TrackedPerformance(model_performance, model, response)

_track_metrics(model, response, task_type) ==
    /\ metrics_history' = TrackedHistory(metrics_history, model, response,
                                         task_type, now)
    /\ model_performance' = TrackedPerformance(model_performance, model,
                                               response)

\* ------------------------------------------------------------------------
\* smart_completion, one action per stretch of code between two awaits
\* ------------------------------------------------------------------------

\* the arguments of one _execute_request(model, messages, max_tokens,
\* temperature) invocation
Attempt(model, req) ==
    [ model |-> model, messages |-> req.messages,
      max_tokens |-> req.max_tokens, temperature |-> req.temperature ]

\* lines 197-203 without the force_model branch: every call selects
AfterMiss_IgnoresForce(c) ==
    LET req == c.req
        sel == _select_optimal_model(req.task_type, req.complexity,
                   req.urgency, req.cost_preference, model_performance)
    IN  IF sel.raised
        THEN [ c EXCEPT !.pc = "raised", !.selected = TRUE,
                        !.e = [ type |-> "IndexError",
                                msg |-> "list index out of range",
                                cause |-> None ] ]
        ELSE [ c EXCEPT !.pc = "http_post", !.selected = TRUE,
                        !.model = sel.model, !.phase = "primary",
                        !.cur = sel.model, !.tries = 1,
                        !.attempts = << Attempt(sel.model, req) >> ]

\* lines 197-209: pick the model and send the first POST for it
AfterMiss(c) ==
    LET req == c.req
        forced == req.force_model # None /\ req.force_model \in ModelNames
        sel == IF forced THEN Returned(req.force_model)
               ELSE _select_optimal_model(req.task_type, req.complexity,
                        req.urgency, req.cost_preference, model_performance)
    IN  IF sel.raised
        THEN [ c EXCEPT !.pc = "raised", !.selected = ~forced,
                        !.e = [ type |-> "IndexError",
                                msg |-> "list index out of range",
                                cause |-> None ] ]
        ELSE [ c EXCEPT !.pc = "http_post", !.selected = ~forced,
                        !.model = sel.model, !.phase = "primary",
                        !.cur = sel.model, !.tries = 1,
                        !.attempts = << Attempt(sel.model, req) >> ]

InFlight == { p \in Tasks : call[p].pc # "idle" }

\* a call that looks into the cache only when no usable force_model is given
Start_ForcedSkipsCache(p) ==
    /\ call[p].pc = "idle"
    /\ \A q \in Tasks : q < p => call[q].pc # "idle"
    /\ Cardinality(InFlight) < workload.max_inflight
    /\ Len(returned) + Cardinality(InFlight) < workload.max_calls
    /\ \E req \in Requests(workload) :
       LET c0 == [ IdleCall EXCEPT !.req = req, !.start_time = now ]
       IN  call' = [ call EXCEPT ![p] =
               IF ~req.enable_cache THEN AfterMiss(c0)
               ELSE IF req.force_model \in ModelNames
               THEN AfterMiss([ c0 EXCEPT
                        !.cache_key = _generate_cache_key(req.messages,
                                          req.task_type, req.temperature) ])
               ELSE [ c0 EXCEPT !.pc = "redis_get",
                        !.cache_key = _generate_cache_key(req.messages,
                                          req.task_type, req.temperature) ] ]
    /\ UNCHANGED << redis, model_performance, metrics_history, now, returned,
                    workload >>

\* lines 186-192: a request arrives
Start(p) ==
    /\ call[p].pc = "idle"
    /\ \A q \in Tasks : q < p => call[q].pc # "idle"
    /\ Cardinality(InFlight) < workload.max_inflight
    /\ Len(returned) + Cardinality(InFlight) < workload.max_calls
    /\ \E req \in Requests(workload) :
       LET c0 == [ IdleCall EXCEPT !.req = req, !.start_time = now ]
       IN  call' = [ call EXCEPT ![p] =
               IF req.enable_cache
               THEN [ c0 EXCEPT !.pc = "redis_get",
                        !.cache_key = _generate_cache_key(req.messages,
                                          req.task_type, req.temperature) ]
               ELSE AfterMiss(c0) ]
    /\ UNCHANGED << redis, model_performance, metrics_history, now, returned,
                    workload >>

\* a lookup that also records the hit as a request of the cached model
RedisGet_TracksHit(p) ==
    /\ call[p].pc = "redis_get"
    /\ LET c == call[p]
       IN  IF workload.redis_up /\ c.cache_key \in DOMAIN redis
           THEN /\ call' = [ call EXCEPT ![p] =
                       [ c EXCEPT !.pc = "done",
                            !.result = FromCache(redis[c.cache_key].data) ] ]
                /\ _track_metrics(redis[c.cache_key].data.model_used,
                                  redis[c.cache_key].data, c.req.task_type)
           ELSE /\ call' = [ call EXCEPT ![p] = AfterMiss(c) ]
                /\ UNCHANGED << model_performance, metrics_history >>
    /\ UNCHANGED << redis, now, returned, workload >>

\* a lookup without the try/except of _check_cache: the error of redis.get
\* reaches the caller of smart_completion
RedisGet_RaisesWhenDown(p) ==
    /\ call[p].pc = "redis_get"
    /\ LET c == call[p]
       IN  IF ~workload.redis_up
           THEN call' = [ call EXCEPT ![p] =
                    [ c EXCEPT !.pc = "raised",
                         !.e = [ type |-> "ConnectionError",
                                 msg |-> "connection refused",
                                 cause |-> None ] ] ]
           ELSE IF c.cache_key \in DOMAIN redis
           THEN call' = [ call EXCEPT ![p] =
                    [ c EXCEPT !.pc = "done",
                         !.result = FromCache(redis[c.cache_key].data) ] ]
           ELSE call' = [ call EXCEPT ![p] = AfterMiss(c) ]
    /\ UNCHANGED << redis, model_performance, metrics_history, now, returned,
                    workload >>

\* _check_cache, lines 193-195: redis.get answers
RedisGet(p) ==
    /\ call[p].pc = "redis_get"
    /\ LET c == call[p]
       IN  IF ~workload.redis_up
           THEN \* redis.get raises: logged, treated as a miss
                call' = [ call EXCEPT ![p] = AfterMiss(c) ]
           ELSE IF c.cache_key \in DOMAIN redis
           THEN call' = [ call EXCEPT ![p] =
                    [ c EXCEPT !.pc = "done",
                         !.result = FromCache(redis[c.cache_key].data) ] ]
           ELSE call' = [ call EXCEPT ![p] = AfterMiss(c) ]
    /\ UNCHANGED << redis, model_performance, metrics_history, now, returned,
                    workload >>

\* lines 240-246
AllFailed(c) ==
    [ c EXCEPT !.pc = "done",
               !.result = FailureResult(c.e, c.model,
                                        (now - c.start_time) * 1000) ]

\* a loop that walks the chain from its cheapest end
NextFallback_Backwards(c, rest) ==
    IF rest = << >> THEN AllFailed(c)
    ELSE [ c EXCEPT !.phase = "fallback", !.cur = rest[Len(rest)],
                    !.chain = SubSeq(rest, 1, Len(rest) - 1), !.tries = 1,
                    !.attempts = Append(c.attempts,
                                        Attempt(rest[Len(rest)], c.req)) ]

\* the for loop of lines 228-238 moving to its next model
NextFallback(c, rest) ==
    IF rest = << >> THEN AllFailed(c)
    ELSE [ c EXCEPT !.phase = "fallback", !.cur = rest[1],
                    !.chain = Tail(rest), !.tries = 1,
                    !.attempts = Append(c.attempts, Attempt(rest[1], c.req)) ]

\* _execute_request raised for good: lines 223-227 after the primary model,
\* lines 236-238 after a fallback model
ExecuteRaised(c0, exc) ==
    LET c == [ c0 EXCEPT !.failed = Append(@, c0.cur) ]
    IN  IF c.phase = "primary"
        THEN LET c1 == [ c EXCEPT !.e = exc ]
             IN  IF c.req.enable_fallback
                 THEN LET fallback_models == _get_fallback_chain(c.model)
                      IN  NextFallback(
                              [ c1 EXCEPT !.fallback_models = fallback_models ],
                              fallback_models)
                 ELSE AllFailed(c1)
        ELSE NextFallback(c, c.chain)

\* lines 339-341: _execute_request goes on to the POST only for a key of
\* self.models
KnownModel(model) == model \in DOMAIN models

\* raise ValueError(f"Unknown model: {model}")
ValueError(model) ==
    [ type |-> "ValueError", msg |-> "Unknown model: " \o model,
      cause |-> None ]

\* what one try of _execute_request(model, ...) may raise
RaisedBy(model) ==
    IF KnownModel(model) THEN ProviderErrors ELSE { ValueError(model) }

\* one POST of _execute_request answers with status 200 and a well-formed body
PostSucceeds(p) ==
    /\ call[p].pc = "http_post"
    /\ KnownModel(call[p].cur)
    /\ \E content \in Contents, latency \in Latencies(workload),
          tokens \in TokenCounts(workload) :
       LET c == [ call[p] EXCEPT !.posts = @ + 1 ]
           response == SuccessResponse(c.cur, content, tokens, latency, now)
       IN  IF c.phase = "primary" /\ c.req.enable_cache
              /\ c.cache_key # None /\ response.success
           THEN /\ call' = [ call EXCEPT ![p] =
                       [ c EXCEPT !.pc = "redis_setex",
                                  !.response = response ] ]
                /\ UNCHANGED << metrics_history, model_performance >>
           ELSE /\ _track_metrics(c.cur, response, c.req.task_type)
                /\ call' = [ call EXCEPT ![p] =
                       [ c EXCEPT !.pc = "done", !.result = response ] ]
    /\ UNCHANGED << redis, now, returned, workload >>

\* a retry policy that stops after the fourth attempt
PostFails_FourTries(p) ==
    /\ call[p].pc = "http_post"
    /\ \E exc \in ProviderErrors :
       LET c == [ call[p] EXCEPT !.posts = @ + 1 ]
       IN  call' = [ call EXCEPT ![p] =
               IF c.tries < RetryAttempts + 1
               THEN [ c EXCEPT !.tries = @ + 1 ]
               ELSE ExecuteRaised(c, RetryError(exc)) ]
    /\ UNCHANGED << redis, model_performance, metrics_history, now, returned,
                    workload >>

\* a failure path that also stores the failure object under the request's key
PostFails_CachesFailure(p) ==
    /\ call[p].pc = "http_post"
    /\ \E exc \in ProviderErrors :
       LET c == [ call[p] EXCEPT !.posts = @ + 1 ]
           after == IF c.tries < RetryAttempts
                    THEN [ c EXCEPT !.tries = @ + 1 ]
                    ELSE ExecuteRaised(c, RetryError(exc))
       IN  /\ call' = [ call EXCEPT ![p] = after ]
           /\ IF after.pc = "done" /\ c.cache_key # None /\ workload.redis_up
              THEN redis' = [ k \in DOMAIN redis \cup {c.cache_key} |->
                               IF k = c.cache_key
                               THEN [ data |-> CacheData(after.result),
                                      expiry |-> now + cache_ttl ]
                               ELSE redis[k] ]
              ELSE UNCHANGED redis
    /\ UNCHANGED << model_performance, metrics_history, now, returned,
                    workload >>

\* one POST fails (network error, non-200 status): tenacity tries again until
\* the attempt limit, then raises RetryError
PostFails(p) ==
    /\ call[p].pc = "http_post"
    /\ \E exc \in RaisedBy(call[p].cur) :
       LET c == [ call[p] EXCEPT
                    !.posts = IF KnownModel(call[p].cur) THEN @ + 1 ELSE @ ]
       IN  call' = [ call EXCEPT ![p] =
               IF c.tries < RetryAttempts
               THEN [ c EXCEPT !.tries = @ + 1 ]
               ELSE ExecuteRaised(c, RetryError(exc)) ]
    /\ UNCHANGED << redis, model_performance, metrics_history, now, returned,
                    workload >>

\* a store that updates the fields of an existing value one request at a
\* time: the content of the first writer stays, the rest is overwritten
Setex_MergesFields(store, key, seconds, value) ==
    [ k \in DOMAIN store \cup {key} |->
        IF k = key
        THEN [ data |-> IF key \in DOMAIN store
                        THEN [ value EXCEPT !.content = store[key].data.content ]
                        ELSE value,
               expiry |-> now + seconds ]
        ELSE store[k] ]

\* SETEX key seconds value of Redis
Setex(store, key, seconds, value) ==
    [ k \in DOMAIN store \cup {key} |->
        IF k = key THEN [ data |-> value, expiry |-> now + seconds ]
        ELSE store[k] ]

\* _cache_response, then lines 215-221: redis.setex answers
RedisSetex(p) ==
    /\ call[p].pc = "redis_setex"
    /\ LET c == call[p]
       IN  /\ IF workload.redis_up
              THEN redis' = Setex(redis, c.cache_key, cache_ttl,
                                  CacheData(c.response))
              ELSE \* redis.setex raises: logged, the response is not stored
                   UNCHANGED redis
           /\ _track_metrics(c.model, c.response, c.req.task_type)
           /\ call' = [ call EXCEPT ![p] =
                  [ c EXCEPT !.pc = "done", !.result = c.response ] ]
    /\ UNCHANGED << now, returned, workload >>

\* smart_completion returns (or raises) to its caller
Return(p) ==
    /\ call[p].pc \in {"done", "raised"}
    /\ returned' = Append(returned,
           [ req |-> call[p].req, cache_key |-> call[p].cache_key,
             raised |-> call[p].pc = "raised",
             result |-> call[p].result, at |-> now ])
    /\ call' = [ call EXCEPT ![p] = IdleCall ]
    /\ UNCHANGED << redis, model_performance, metrics_history, now, workload >>

\* time passes (between calls: a call is short against the TTL); Redis drops
\* the keys whose TTL has run out
Tick ==
    /\ InFlight = {}
    /\ now + TickStep <= MaxTime
    /\ now' = now + TickStep
    /\ redis' = [ k \in { k \in DOMAIN redis : redis[k].expiry > now' } |->
                    redis[k] ]
    /\ UNCHANGED << model_performance, metrics_history, call, returned,
                    workload >>

\* ------------------------------------------------------------------------
\* The embedding server (src/mcp/embedding/embedding_mcp_server.py)
\* Time is in hours, money in 10^-8 dollars, durations in milliseconds.
\* ------------------------------------------------------------------------

\* bounds of the exploration
MaxEmbCalls == 2

HourStep == 12

MaxHours == 36

NomicModel ==
    [ provider |-> "openrouter", model |-> "nomic-ai/nomic-embed-text-v1.5",
      dimensions |-> 768, cost_per_million_tokens |-> 10 ]

\* _get_default_config: what the server runs with when no file is found
_get_default_config ==
    [ default_model |-> "nomic-embed-text-v1.5",
      embedding_models |-> ("nomic-embed-text-v1.5" :> NomicModel),
      providers |-> {"openrouter"},
      use_case_mappings |-> [ u \in {} |-> None ],
      fallback_chain |-> << >>,
      cache_embeddings |-> TRUE,
      cache_ttl_hours |-> 24 ]

\* a configuration file with the keys _load_config's callers read: several
\* providers, use-case routing and a fallback chain
RoutedConfig ==
    [ default_model |-> "nomic-embed-text-v1.5",
      embedding_models |->
          ("nomic-embed-text-v1.5" :> NomicModel)
       @@ ("text-embedding-3-small" :>
              [ provider |-> "openai", model |-> "text-embedding-3-small",
                dimensions |-> 1536, cost_per_million_tokens |-> 2 ])
       @@ ("lambda-embed" :>
              [ provider |-> "lambda_inference", model |-> "lambda/embed",
                dimensions |-> 1024, cost_per_million_tokens |-> 5 ])
       @@ ("cohere-embed" :>
              [ provider |-> "cohere", model |-> "embed-english-v3.0",
                dimensions |-> 1024, cost_per_million_tokens |-> 10 ]),
      providers |-> {"openrouter", "openai"},
      use_case_mappings |->
          ("bulk_processing" :> "lambda-embed")
       @@ ("foundational_knowledge" :> "text-embedding-3-small"),
      fallback_chain |-> << "lambda-embed", "cohere-embed",
                            "nomic-embed-text-v1.5",
                            "text-embedding-3-small" >>,
      cache_embeddings |-> TRUE,
      cache_ttl_hours |-> 24 ]

\* a configuration file whose fallback chain names only models that no
\* provider function of _try_fallback serves
DeadEndConfig ==
    [ RoutedConfig EXCEPT !.fallback_chain = << "cohere-embed", "lambda-embed" >> ]

\* _load_config: the file's content, or the default configuration
Configs ==
    { [ cfg EXCEPT !.cache_embeddings = on ] :
          cfg \in { _get_default_config, RoutedConfig, DeadEndConfig },
          on \in BOOLEAN }

\* os.getenv(api_key_env): the providers whose API key is set
Environs == { {}, {"openrouter", "openai"} }

\* len(text) of the texts requested
CharCount == ("hello world!" :> 12)

\* the requests the /generate_embedding route builds
EmbeddingRequests ==
    [ text : DOMAIN CharCount,
      model_id : { "default", "nomic-embed-text-v1.5",
                   "text-embedding-3-small", "lambda-embed", "cohere-embed",
                   "bulk_processing", "no-such-model" },
      use_case : { None } ]

NoEmbeddingRequest == [ text |-> None, model_id |-> None, use_case |-> None ]

\* EmbeddingRequest.__post_init__: md5 of "text:model_id:use_case"
EmbeddingCacheKey(request) ==
    << request.text, request.model_id,
       IF request.use_case = None THEN "" ELSE request.use_case >>

\* what a provider can answer with status 200
Vectors == { "vector 1", "vector 2" }

\* random.gauss draws of _mock_embedding_response
MockVectors == { "random 1", "random 2" }

ProviderTokens == { 3 }

ProviderLatencies == { 120 }

NoMetadata ==
    [ model |-> None, use_case |-> None, mock |-> FALSE,
      fallback_from |-> None, original_error |-> None,
      fallback_used |-> FALSE ]

\* EmbeddingResponse as the provider functions build it
EmbeddingResponse(embeddings, model_id, provider, model_config, token_count, metadata, timestamp) ==
    [ embeddings |-> embeddings, model_id |-> model_id,
      provider |-> provider, dimensions |-> model_config.dimensions,
      token_count |-> token_count,
      cost_estimate |-> token_count * model_config.cost_per_million_tokens,
      cache_hit |-> FALSE, processing_time_ms |-> 0,
      metadata |-> metadata, timestamp |-> timestamp ]

NoEmbeddingResponse ==
    [ embeddings |-> None, model_id |-> None, provider |-> None,
      dimensions |-> Absent, token_count |-> Absent,
      cost_estimate |-> Absent, cache_hit |-> FALSE,
      processing_time_ms |-> Absent, metadata |-> NoMetadata,
      timestamp |-> Absent ]

\* the metadata of a generated response: model, use_case, **request.metadata
ResponseMetadata(request, metadata, model_config, mock) ==
    [ metadata EXCEPT !.model = model_config.model,
                      !.use_case = request.use_case, !.mock = mock ]

\* _mock_embedding_response
_mock_embedding_response(vector, request, model_id, metadata, model_config, provider, at) ==
    EmbeddingResponse(vector, model_id, provider, model_config,
                      CharCount[request.text] \div 4,
                      ResponseMetadata(request, metadata, model_config, TRUE),
                      at)

\* get_model_config: the name of the model whose configuration is returned
ResolvedModel(cfg, model_id) ==
    LET known == DOMAIN cfg.embedding_models
        inChain == { i \in 1..Len(cfg.fallback_chain) :
                         cfg.fallback_chain[i] \in known }
    IN  IF model_id \in known THEN model_id
        ELSE IF model_id = "default" /\ cfg.default_model \in known
        THEN cfg.default_model
        ELSE IF /\ model_id \in DOMAIN cfg.use_case_mappings
                /\ cfg.use_case_mappings[model_id] \in known
        THEN cfg.use_case_mappings[model_id]
        ELSE IF inChain # {}
        THEN cfg.fallback_chain[CHOOSE i \in inChain :
                                    \A j \in inChain : i <= j]
        ELSE None

\* get_model_config
get_model_config(cfg, model_id) ==
    LET name == ResolvedModel(cfg, model_id)
    IN  IF name = None
        THEN [ raised |-> TRUE, model_config |-> NomicModel,
               error |-> "Model '" \o model_id
                         \o "' not found and no fallback available" ]
        ELSE [ raised |-> FALSE,
               model_config |-> cfg.embedding_models[name],
               error |-> None ]

VARIABLES
    config,         \* self.config, fixed when the server is constructed
    environ,        \* the providers whose API key is in the environment
    cache,          \* EmbeddingCache.cache: key -> [response, timestamp]
    datetime_now,   \* datetime.now(), in hours
    generation,     \* per request being served: where generate_embedding is
    served          \* what the /generate_embedding route answered, in order

embVars == << config, environ, cache, datetime_now, generation, served >>

clientVars == << redis, model_performance, metrics_history, now, call,
                 returned >>

VARIABLES
    reporting,      \* the get_analytics call under way, if any
    reports         \* what get_analytics and health_check returned, in order

opsVars == << reporting, reports >>

VARIABLES
    swarm,          \* per execute_task run: the SwarmState and the node to run
    reg_file,       \* the content of REG_PATH (index_registry.json)
    _LOCK,          \* the thread that holds the registry's lock, if any
    caller,         \* per thread: the registry function it is in
    lock_order,     \* the publish_index calls in the order they took the lock
    secret_store,   \* the SecretStore: secrets and audit_log
    answers         \* what the /secrets/get route answered, in order

swarmVars == << swarm >>

registryVars == << reg_file, _LOCK, caller, lock_order >>

secretVars == << secret_store, answers >>

restVars == << swarmVars, registryVars, secretVars >>

\* what a step of smart_completion leaves alone
outsideCalls == << embVars, opsVars, restVars >>

\* what a step of the embedding server leaves alone
outsideEmbedding == << clientVars, opsVars, restVars >>

vars == << redis, model_performance, metrics_history, now, call, returned,
           workload, config, environ, cache, datetime_now, generation,
           served, reporting, reports, swarm, reg_file, _LOCK, caller,
           lock_order, secret_store, answers >>

IdleGeneration ==
    [ pc |-> "idle", request |-> NoEmbeddingRequest, cache_key |-> << >>,
      lookup |-> None, stage |-> None, model_id |-> None,
      metadata |-> NoMetadata, provider |-> None,
      model_config |-> NomicModel, rest |-> << >>,
      original_error |-> None, result |-> NoEmbeddingResponse,
      error |-> None, posts |-> 0, walked |-> << >> ]

\* EmbeddingCache.get with the comparison "<=": an entry whose age equals the
\* TTL is still returned
EmbeddingCache_get_Inclusive(store, cache_key, at, ttl_hours) ==
    IF cache_key \in DOMAIN store
    THEN IF at - store[cache_key].timestamp <= ttl_hours
         THEN [ hit |-> TRUE, response |-> store[cache_key].response,
                cache |-> store ]
         ELSE [ hit |-> FALSE, response |-> NoEmbeddingResponse,
                cache |-> [ k \in DOMAIN store \ {cache_key} |-> store[k] ] ]
    ELSE [ hit |-> FALSE, response |-> NoEmbeddingResponse, cache |-> store ]

\* EmbeddingCache.get: the response, and the dict as the lookup leaves it
EmbeddingCache_get(store, cache_key, at, ttl_hours) ==
    IF cache_key \in DOMAIN store
    THEN IF at - store[cache_key].timestamp < ttl_hours
         THEN [ hit |-> TRUE, response |-> store[cache_key].response,
                cache |-> store ]
         ELSE [ hit |-> FALSE, response |-> NoEmbeddingResponse,
                cache |-> [ k \in DOMAIN store \ {cache_key} |-> store[k] ] ]
    ELSE [ hit |-> FALSE, response |-> NoEmbeddingResponse, cache |-> store ]

\* EmbeddingCache.set
EmbeddingCache_set(store, cache_key, response, at) ==
    [ k \in DOMAIN store \cup {cache_key} |->
        IF k = cache_key THEN [ response |-> response, timestamp |-> at ]
        ELSE store[k] ]

\* _generate_openrouter_embedding / _generate_openai_embedding up to the
\* POST: a missing provider section or API key raises before any request
CanPost(cfg, env, provider) == provider \in cfg.providers /\ provider \in env

\* generate_embedding with a cache that takes real results only: a mock
\* response is returned but not stored
FinishPrimary_KeepsMocksOut(g, store, response, elapsed, at) ==
    LET final == [ response EXCEPT !.cache_hit = FALSE,
                                   !.processing_time_ms = elapsed ]
    IN  [ generation |-> [ g EXCEPT !.pc = "done", !.result = final ],
          cache |-> IF config.cache_embeddings /\ ~response.metadata.mock
                    THEN EmbeddingCache_set(store, g.cache_key, final, at)
                    ELSE store ]

\* generate_embedding, lines 241-247, with the response the provider
\* function returned: cache.set, then cache_hit and processing_time_ms are set
\* on the object the cache holds too
FinishPrimary(g, store, response, elapsed, at) ==
    LET final == [ response EXCEPT !.cache_hit = FALSE,
                                   !.processing_time_ms = elapsed ]
    IN  [ generation |-> [ g EXCEPT !.pc = "done", !.result = final ],
          cache |-> IF config.cache_embeddings
                    THEN EmbeddingCache_set(store, g.cache_key, final, at)
                    ELSE store ]

\* _try_fallback, lines 283-288, with the response a fallback model gave
FinishFallback(g, response, elapsed) ==
    [ g EXCEPT !.pc = "done",
               !.result = [ response EXCEPT
                               !.cache_hit = FALSE,
                               !.processing_time_ms = elapsed,
                               !.metadata.fallback_used = TRUE ] ]

\* a fallback walk without the test of line 259: the entry equal to the
\* failed request's model_id is tried like any other
RECURSIVE _try_fallback_NoSkip(_, _, _)
_try_fallback_NoSkip(g, rest, vector) ==
    IF rest = << >>
    THEN [ g EXCEPT !.pc = "raised", !.rest = << >>,
                    !.error = "All embedding models failed. Original error: "
                              \o g.original_error ]
    ELSE LET fallback_model == Head(rest)
             found == get_model_config(config, fallback_model)
             provider_name == found.model_config.provider
             metadata == [ NoMetadata EXCEPT
                              !.fallback_from = g.request.model_id,
                              !.original_error = g.original_error ]
             g1 == [ g EXCEPT !.stage = "fallback",
                              !.model_id = fallback_model,
                              !.metadata = metadata,
                              !.provider = provider_name,
                              !.model_config = found.model_config,
                              !.rest = Tail(rest),
                              !.walked = Append(@, fallback_model) ]
         IN  IF found.raised \/ provider_name \notin {"openrouter", "openai"}
             THEN _try_fallback_NoSkip([ g EXCEPT !.walked =
                                           Append(@, fallback_model) ],
                                       Tail(rest), vector)
             ELSE IF CanPost(config, environ, provider_name)
             THEN [ g1 EXCEPT !.pc = "post" ]
             ELSE FinishFallback(g1,
                      _mock_embedding_response(vector, g.request,
                          fallback_model, metadata, found.model_config,
                          provider_name, datetime_now), 0)

\* _try_fallback: the loop over the remaining entries of the chain, up to
\* the next POST, the next mock response, or the end of the chain
RECURSIVE _try_fallback(_, _, _)
_try_fallback(g, rest, vector) ==
    IF rest = << >>
    THEN [ g EXCEPT !.pc = "raised", !.rest = << >>,
                    !.error = "All embedding models failed. Original error: "
                              \o g.original_error ]
    ELSE LET fallback_model == Head(rest)
             found == get_model_config(config, fallback_model)
             provider_name == found.model_config.provider
             metadata == [ NoMetadata EXCEPT
                              !.fallback_from = g.request.model_id,
                              !.original_error = g.original_error ]
             g1 == [ g EXCEPT !.stage = "fallback",
                              !.model_id = fallback_model,
                              !.metadata = metadata,
                              !.provider = provider_name,
                              !.model_config = found.model_config,
                              !.rest = Tail(rest),
                              !.walked = Append(@, fallback_model) ]
         IN  IF fallback_model = g.request.model_id
             THEN _try_fallback(g, Tail(rest), vector)
             ELSE IF found.raised
             THEN _try_fallback([ g EXCEPT !.walked =
                                     Append(@, fallback_model) ],
                                Tail(rest), vector)
             ELSE IF provider_name \notin {"openrouter", "openai"}
             THEN _try_fallback([ g EXCEPT !.walked =
                                     Append(@, fallback_model) ],
                                Tail(rest), vector)
             ELSE IF CanPost(config, environ, provider_name)
             THEN [ g1 EXCEPT !.pc = "post" ]
             ELSE FinishFallback(g1,
                      _mock_embedding_response(vector, g.request,
                          fallback_model, metadata, found.model_config,
                          provider_name, datetime_now), 0)

\* generate_embedding, lines 249-252: the primary path raised
Failed(g, message, vector) ==
    _try_fallback([ g EXCEPT !.original_error = message ],
                  config.fallback_chain, vector)

\* generate_embedding, lines 227-239, after a miss: the model is resolved and
\* its provider function is entered
Primary(g, store, vector) ==
    LET found == get_model_config(config, g.request.model_id)
        provider_name == found.model_config.provider
        g1 == [ g EXCEPT !.stage = "primary",
                         !.model_id = g.request.model_id,
                         !.provider = provider_name,
                         !.model_config = found.model_config ]
        mock == _mock_embedding_response(vector, g.request,
                    g.request.model_id, NoMetadata, found.model_config,
                    provider_name, datetime_now)
    IN  IF found.raised
        THEN [ generation |-> Failed(g, found.error, vector),
               cache |-> store ]
        ELSE IF provider_name \in {"openrouter", "openai"}
        THEN IF CanPost(config, environ, provider_name)
             THEN [ generation |-> [ g1 EXCEPT !.pc = "post" ],
                    cache |-> store ]
             ELSE FinishPrimary(g1, store, mock, 0, datetime_now)
        ELSE IF provider_name = "lambda_inference"
        THEN FinishPrimary(g1, store, mock, 0, datetime_now)
        ELSE [ generation |->
                   Failed(g1, "Unsupported provider: " \o provider_name,
                          vector),
               cache |-> store ]

Generating == { t \in Tasks : generation[t].pc # "idle" }

\* the /generate_embedding route receives a request: generate_embedding runs
\* to its first POST, or to its end when no POST is made
EmbStart(t) ==
    /\ generation[t].pc = "idle"
    /\ \A u \in Tasks : u < t => generation[u].pc # "idle"
    /\ Cardinality(Generating) < workload.max_inflight
    /\ Len(served) + Cardinality(Generating) < workload.max_calls
    /\ \E request \in EmbeddingRequests, vector \in MockVectors :
       LET key == EmbeddingCacheKey(request)
           g0 == [ IdleGeneration EXCEPT !.pc = "started",
                                         !.request = request,
                                         !.cache_key = key ]
           got == EmbeddingCache_get(cache, key, datetime_now,
                                     config.cache_ttl_hours)
           hit == [ got.response EXCEPT !.cache_hit = TRUE,
                                        !.processing_time_ms = 0 ]
           lookup == IF key \notin DOMAIN cache THEN "absent"
                     ELSE IF got.hit THEN "fresh" ELSE "expired"
           after == IF config.cache_embeddings
                    THEN Primary([ g0 EXCEPT !.lookup = lookup ],
                                 got.cache, vector)
                    ELSE Primary(g0, cache, vector)
       IN  IF config.cache_embeddings /\ got.hit
           THEN /\ generation' = [ generation EXCEPT ![t] =
                       [ g0 EXCEPT !.pc = "done", !.lookup = lookup,
                                   !.result = hit ] ]
                /\ cache' = [ cache EXCEPT ![key].response = hit ]
           ELSE /\ generation' = [ generation EXCEPT ![t] =
                                       after.generation ]
                /\ cache' = after.cache
    /\ UNCHANGED << config, environ, datetime_now, served, workload >>

\* the provider answers the POST with status 200
EmbPostOk(t) ==
    /\ generation[t].pc = "post"
    /\ \E vector \in Vectors, tokens \in ProviderTokens,
          elapsed \in ProviderLatencies :
       LET g == [ generation[t] EXCEPT !.posts = @ + 1 ]
           response == EmbeddingResponse(vector, g.model_id, g.provider,
                           g.model_config, tokens,
                           ResponseMetadata(g.request, g.metadata,
                                            g.model_config, FALSE),
                           datetime_now)
           primary == FinishPrimary(g, cache, response, elapsed,
                                    datetime_now)
       IN  IF g.stage = "primary"
           THEN /\ generation' = [ generation EXCEPT ![t] =
                                       primary.generation ]
                /\ cache' = primary.cache
           ELSE /\ generation' = [ generation EXCEPT ![t] =
                                       FinishFallback(g, response, elapsed) ]
                /\ UNCHANGED cache
    /\ UNCHANGED << config, environ, datetime_now, served, workload >>

\* the POST fails (network error, status other than 200): the provider
\* function answers with a mock response
EmbPostFails(t) ==
    /\ generation[t].pc = "post"
    /\ \E vector \in MockVectors, elapsed \in ProviderLatencies :
       LET g == [ generation[t] EXCEPT !.posts = @ + 1 ]
           response == _mock_embedding_response(vector, g.request,
                           g.model_id, g.metadata, g.model_config,
                           g.provider, datetime_now)
           primary == FinishPrimary(g, cache, response, elapsed,
                                    datetime_now)
       IN  IF g.stage = "primary"
           THEN /\ generation' = [ generation EXCEPT ![t] =
                                       primary.generation ]
                /\ cache' = primary.cache
           ELSE /\ generation' = [ generation EXCEPT ![t] =
                                       FinishFallback(g, response, elapsed) ]
                /\ UNCHANGED cache
    /\ UNCHANGED << config, environ, datetime_now, served, workload >>

\* the route answers: 200 with result.to_dict(), or 500 with str(e)
EmbReturn(t) ==
    /\ generation[t].pc \in {"done", "raised"}
    /\ served' = Append(served,
           [ request |-> generation[t].request,
             success |-> generation[t].pc = "done",
             data |-> generation[t].result,
             error |-> generation[t].error,
             lookup |-> generation[t].lookup,
             posts |-> generation[t].posts,
             at |-> datetime_now ])
    /\ generation' = [ generation EXCEPT ![t] = IdleGeneration ]
    /\ UNCHANGED << config, environ, cache, datetime_now, workload >>

\* time passes between two requests
EmbTick ==
    /\ Generating = {}
    /\ datetime_now + HourStep <= MaxHours
    /\ datetime_now' = datetime_now + HourStep
    /\ UNCHANGED << config, environ, cache, generation, served, workload >>

\* ------------------------------------------------------------------------
\* get_analytics and health_check of the completion client
\* ------------------------------------------------------------------------

\* bound of the exploration: reports asked for in one behaviour
MaxReports == 2

\* self.metrics_history[-10:]
RecentWindow == 10

\* sum(1 for m in history if m.success)
SuccessfulIn(history) ==
    LET Succeeded(m) == m.success IN Len(SelectSeq(history, Succeeded))

\* [m for m in self.metrics_history if m.model_used == model]
MetricsOf(history, model) ==
    LET OfModel(m) == m.model_used = model IN SelectSeq(history, OfModel)

RECURSIVE SumOf(_, _)
SumOf(history, field) ==
    IF history = << >> THEN 0
    ELSE history[1][field] + SumOf(Tail(history), field)

\* round(x, 4) of an amount in billionths of a dollar
Round4(x) == ((x + 50000) \div 100000) * 100000

\* a / b of Python on numbers, kept as the fraction
Ratio(a, b) == [ num |-> a, den |-> b ]

\* lines 553-572: the figures get_analytics computes from the history before
\* it awaits Redis
ComputedFigures(history) ==
    [ overview |->
          [ total_requests |-> Len(history),
            success_rate |-> Ratio(SuccessfulIn(history), Len(history)),
            total_cost |-> Round4(SumOf(history, "cost")),
            average_response_time |->
                Ratio(SumOf(history, "response_time"), Len(history)),
            available_models |-> Cardinality(DOMAIN models) ],
      model_performance |->
          [ m \in { history[i].model_used : i \in DOMAIN history } |->
              [ count |-> Len(MetricsOf(history, m)),
                success_rate |-> Ratio(SuccessfulIn(MetricsOf(history, m)),
                                       Len(MetricsOf(history, m))),
                avg_cost |-> Ratio(SumOf(MetricsOf(history, m), "cost"),
                                   Len(MetricsOf(history, m))) ] ] ]

\* lines 574-585: what redis.info() tells; the server's counters and memory
\* are written as the number of keys it holds
CacheStatistics(store, up) ==
    IF up THEN [ connected |-> TRUE, keys |-> Cardinality(DOMAIN store) ]
    ELSE [ connected |-> FALSE, keys |-> Absent ]

\* lines 596-604: the last ten records, read when the report is built
RecentActivity(history) ==
    LET recent == LastN(history, RecentWindow)
    IN  [ i \in 1..Len(recent) |->
            [ model |-> recent[i].model_used, success |-> recent[i].success,
              cost |-> Round4(recent[i].cost),
              response_time |-> recent[i].response_time,
              timestamp |-> recent[i].timestamp ] ]

NoFigures == [ overview |-> None, model_performance |-> None ]

IdleReporting == [ pc |-> "idle", figures |-> NoFigures, read |-> << >> ]

InitReports ==
    /\ reporting = IdleReporting
    /\ reports = << >>

\* get_analytics up to its await of redis.info(); on an empty history it
\* returns at once (lines 549-550)
GetAnalyticsBegin ==
    /\ reporting.pc = "idle"
    /\ Len(reports) < MaxReports
    /\ IF metrics_history = << >>
       THEN /\ reports' = Append(reports,
                   [ op |-> "get_analytics", read |-> metrics_history,
                     read_at_return |-> metrics_history,
                     report |-> [ message |-> "No requests processed yet" ] ])
            /\ UNCHANGED reporting
       ELSE /\ reporting' = [ pc |-> "redis_info",
                              figures |-> ComputedFigures(metrics_history),
                              read |-> metrics_history ]
            /\ UNCHANGED reports
    /\ UNCHANGED << clientVars, workload, embVars, restVars >>

\* a report that also prunes the history down to the window it shows
GetAnalyticsEnd_PrunesHistory ==
    /\ reporting.pc = "redis_info"
    /\ reports' = Append(reports,
           [ op |-> "get_analytics", read |-> reporting.read,
             read_at_return |-> metrics_history,
             report |->
                 [ overview |-> reporting.figures.overview,
                   model_performance |-> reporting.figures.model_performance,
                   cache_statistics |->
                       CacheStatistics(redis, workload.redis_up),
                   recent_activity |-> RecentActivity(metrics_history) ] ])
    /\ reporting' = IdleReporting
    /\ metrics_history' = LastN(metrics_history, 1)
    /\ UNCHANGED << redis, model_performance, now, call, returned,
                    workload, embVars, restVars >>

\* redis.info() answers or raises; the report is built and returned
GetAnalyticsEnd ==
    /\ reporting.pc = "redis_info"
    /\ reports' = Append(reports,
           [ op |-> "get_analytics", read |-> reporting.read,
             read_at_return |-> metrics_history,
             report |->
                 [ overview |-> reporting.figures.overview,
                   model_performance |-> reporting.figures.model_performance,
                   cache_statistics |->
                       CacheStatistics(redis, workload.redis_up),
                   recent_activity |-> RecentActivity(metrics_history) ] ])
    /\ reporting' = IdleReporting
    /\ UNCHANGED << clientVars, workload, embVars, restVars >>

\* health_check: pings Redis, GETs a test URL, counts the models
HealthCheck ==
    /\ Len(reports) < MaxReports
    /\ \E http_ok \in BOOLEAN :
           reports' = Append(reports,
               [ op |-> "health_check", read |-> << >>,
                 read_at_return |-> << >>,
                 report |->
                     [ status |-> IF workload.redis_up /\ http_ok
                                  THEN "healthy" ELSE "degraded",
                       redis |-> IF workload.redis_up THEN "connected"
                                 ELSE "disconnected",
                       http_client |-> IF http_ok THEN "operational"
                                       ELSE "failed",
                       total_available |-> Cardinality(DOMAIN models),
                       by_tier |->
                           [ tier \in {"flash", "balanced", "power",
                                       "specialist"} |->
                               Cardinality({ m \in DOMAIN models :
                                               models[m].tier = tier }) ] ] ])
    /\ UNCHANGED << clientVars, workload, embVars, restVars, reporting >>

\* ------------------------------------------------------------------------
\* The swarm orchestrator (langgraph_swarm_orchestrator.py)
\* ------------------------------------------------------------------------

\* bound of the exploration: execute_task runs under way on one orchestrator
MaxRuns == 2

Runs == 1..MaxRuns

\* the tasks and the contexts execute_task is called with; a context may
\* already hold a next_agent of the caller's
SwarmTasks == {"build the api", "ship the api"}

SwarmContexts == { << >>, [ next_agent |-> "end" ] }

\* what agent.run answers (response.content)
AgentAnswers == {"a design, some code or a report"}

\* d[k] = v on a dict
SetItem(d, k, v) ==
    [ x \in DOMAIN d \cup {k} |-> IF x = k THEN v ELSE d[x] ]

\* AgentRole, in the order of its members
AgentRoles ==
    << "architect", "coder", "reviewer", "tester", "deployer", "monitor" >>

\* a run that has not been started
IdleRun ==
    [ pc |-> "idle",
      state |-> [ messages |-> << >>, current_task |-> None,
                  completed_tasks |-> << >>, active_agents |-> << >>,
                  artifacts |-> << >>, context |-> << >> ],
      trace |-> << >>, result |-> << >> ]

\* the six agent nodes share one shape: the response becomes a message and
\* an artifact (artifacts[key][field] = content), and the role joins
\* active_agents; the timestamp of the message is left out
AgentNode(state, role, key, field, content) ==
    [ state EXCEPT
        !.messages = Append(@, [ role |-> role, content |-> content ]),
        !.artifacts =
            SetItem(@, key,
                    SetItem(IF key \in DOMAIN @ THEN @[key] ELSE << >>,
                            field, content)),
        !.active_agents = Append(@, role) ]

_architect_node(state, content) ==
    AgentNode(state, "architect", "architecture", "design", content)

_coder_node(state, content) ==
    AgentNode(state, "coder", "code", "implementation", content)

_reviewer_node(state, content) ==
    AgentNode(state, "reviewer", "review", "feedback", content)

_tester_node(state, content) ==
    AgentNode(state, "tester", "tests", "results", content)

_deployer_node(state, content) ==
    AgentNode(state, "deployer", "deployment", "status", content)

_monitor_node(state, content) ==
    AgentNode(state, "monitor", "monitoring", "status", content)

\* the first stage, in the order given, that is not among the completed roles
RECURSIVE NextStage(_, _)
NextStage(stages, completed_roles) ==
    IF stages = << >> THEN None
    ELSE IF Head(stages) \notin completed_roles THEN Head(stages)
    ELSE NextStage(Tail(stages), completed_roles)

\* a coordinator that looks for the next stage from the last one backwards
_coordinator_node_FromLastStage(state) ==
    LET Reversed == [ i \in 1..Len(AgentRoles) |->
                        AgentRoles[Len(AgentRoles) + 1 - i] ]
        stage == NextStage(Reversed, Range(state.active_agents))
    IN  IF stage # None
        THEN [ state EXCEPT !.context = SetItem(@, "next_agent", stage) ]
        ELSE [ state EXCEPT
                 !.completed_tasks = Append(@, state.current_task),
                 !.context = SetItem(@, "next_agent", "end") ]

\* _coordinator_node
_coordinator_node(state) ==
    LET workflow_stages == AgentRoles
        stage == NextStage(workflow_stages, Range(state.active_agents))
    IN  IF stage # None
        THEN [ state EXCEPT !.context = SetItem(@, "next_agent", stage) ]
        ELSE [ state EXCEPT
                 !.completed_tasks = Append(@, state.current_task),
                 !.context = SetItem(@, "next_agent", "end") ]

\* _route_next_agent
_route_next_agent(state) ==
    IF "next_agent" \in DOMAIN state.context
    THEN state.context["next_agent"] ELSE "end"

\* the conditional edges of the coordinator: "end" leads to END, a role to
\* its node
EdgeFromCoordinator(route) == IF route = "end" THEN "END" ELSE route

InitSwarm == swarm = [ r \in Runs |-> IdleRun ]

\* execute_task up to workflow.ainvoke: the initial state enters the graph at
\* its entry point
execute_task(r) ==
    /\ swarm[r].pc = "idle"
    /\ \A q \in Runs : q < r => swarm[q].pc # "idle"
    /\ \E task \in SwarmTasks, context \in SwarmContexts :
           swarm' = [ swarm EXCEPT ![r] =
               [ IdleRun EXCEPT !.pc = "coordinator",
                                !.state.current_task = task,
                                !.state.context = context ] ]

\* the graph runs the coordinator and follows its conditional edge
CoordinatorStep(r) ==
    /\ swarm[r].pc = "coordinator"
    /\ LET state == _coordinator_node(swarm[r].state)
       IN  swarm' = [ swarm EXCEPT ![r] =
               [ @ EXCEPT !.state = state,
                          !.pc = EdgeFromCoordinator(_route_next_agent(state)),
                          !.trace = Append(@, "coordinator") ] ]

\* the graph runs an agent node and follows its edge back to the coordinator
AgentStep(r) ==
    /\ swarm[r].pc \in Range(AgentRoles)
    /\ \E content \in AgentAnswers :
       LET node == swarm[r].pc
           before == swarm[r].state
           state == CASE node = "architect" -> _architect_node(before, content)
                      [] node = "coder" -> _coder_node(before, content)
                      [] node = "reviewer" -> _reviewer_node(before, content)
                      [] node = "tester" -> _tester_node(before, content)
                      [] node = "deployer" -> _deployer_node(before, content)
                      [] node = "monitor" -> _monitor_node(before, content)
       IN  swarm' = [ swarm EXCEPT ![r] =
               [ @ EXCEPT !.state = state, !.pc = "coordinator",
                          !.trace = Append(@, node) ] ]

\* ainvoke returns the final state and execute_task returns its summary
SwarmReturn(r) ==
    /\ swarm[r].pc = "END"
    /\ swarm' = [ swarm EXCEPT ![r] =
           [ @ EXCEPT !.pc = "returned",
                      !.result =
                          [ task |-> swarm[r].state.current_task,
                            status |-> "completed",
                            messages |-> swarm[r].state.messages,
                            artifacts |-> swarm[r].state.artifacts,
                            active_agents |->
                                swarm[r].state.active_agents ] ] ]

\* ------------------------------------------------------------------------
\* The context index registry (mcp_servers/context/registry.py)
\* ------------------------------------------------------------------------

\* bound of the exploration: threads of the process that call the registry
MaxThreads == 3

Threads == 1..MaxThreads

Repos == {"sophia-intel", "sophia-docs"}

\* the index id each thread publishes under: the calls' ids are distinct
IndexIds ==
    << "ctx_1f0a_100", "ctx_1f0a_101", "ctx_77c2_100", "ctx_77c2_101" >>

\* the meta dicts passed to publish_index; a meta may hold a "repo" of its own
Metas == { [ files |-> "12" ], [ files |-> "40", repo |-> "a-fork" ] }

\* {"repo": repo, **meta}
IndexEntry(repo, meta) ==
    [ k \in {"repo"} \cup DOMAIN meta |->
        IF k \in DOMAIN meta THEN meta[k] ELSE repo ]

\* what _load returns when REG_PATH does not exist
EmptyRegistry == [ indexes |-> << >>, per_repo_latest |-> << >> ]

\* _load: the file's JSON text read back, a dict of strings as it was saved
_load(file) == IF file.exists THEN file.obj ELSE EmptyRegistry

\* _save
_save(obj) == [ exists |-> TRUE, obj |-> obj ]

\* dict.get of a dict of strings
Get(d, k) == IF k \in DOMAIN d THEN d[k] ELSE None

\* the None that get_index returns, written as a dict without keys: every
\* entry of "indexes" holds the key "repo"
NoIndex == << >>

\* dict.get of "indexes"
GetIndex(d, k) == IF k \in DOMAIN d THEN d[k] ELSE NoIndex

\* the value of _LOCK while no thread holds the lock (threads count from 1)
Unlocked == 0

IdleCaller ==
    [ pc |-> "idle", op |-> None, repo |-> None, index_id |-> None,
      meta |-> << >>, obj |-> EmptyRegistry, result |-> None,
      index |-> NoIndex, seen |-> << >> ]

InitRegistry ==
    /\ reg_file = [ exists |-> FALSE, obj |-> EmptyRegistry ]
    /\ _LOCK = Unlocked
    /\ caller = [ t \in Threads |-> IdleCaller ]
    /\ lock_order = << >>

\* a thread calls publish_index, latest_index_id or get_index and reaches
\* "with _LOCK"
RegistryCall(t) ==
    /\ caller[t].pc = "idle"
    /\ \/ \E repo \in Repos, meta \in Metas :
            caller' = [ caller EXCEPT ![t] =
                [ IdleCaller EXCEPT !.pc = "waiting", !.op = "publish_index",
                                    !.repo = repo, !.index_id = IndexIds[t],
                                    !.meta = meta ] ]
       \/ \E repo \in Repos :
            caller' = [ caller EXCEPT ![t] =
                [ IdleCaller EXCEPT !.pc = "waiting",
                                    !.op = "latest_index_id",
                                    !.repo = repo ] ]
       \/ \E index_id \in { IndexIds[u] : u \in Threads } :
            caller' = [ caller EXCEPT ![t] =
                [ IdleCaller EXCEPT !.pc = "waiting", !.op = "get_index",
                                    !.index_id = index_id ] ]
    /\ UNCHANGED << reg_file, _LOCK, lock_order >>

\* what a thread does on entering the block, whoever holds the lock
Enter(t) ==
    /\ _LOCK' = t
    /\ caller' = [ caller EXCEPT ![t] =
                     [ @ EXCEPT !.pc = "locked", !.seen = lock_order ] ]
    /\ lock_order' =
           IF caller[t].op = "publish_index"
           THEN Append(lock_order,
                    [ thread |-> t, repo |-> caller[t].repo,
                      index_id |-> caller[t].index_id,
                      meta |-> caller[t].meta ])
           ELSE lock_order
    /\ UNCHANGED reg_file

\* the three functions without the lock: the block is entered at once
Acquire_WithoutLock(t) ==
    /\ caller[t].pc = "waiting"
    /\ Enter(t)

\* "with _LOCK": the thread enters when no thread holds the lock
Acquire(t) ==
    /\ caller[t].pc = "waiting"
    /\ _LOCK = Unlocked
    /\ Enter(t)

\* obj = _load(), and what the function does with obj in memory
Load(t) ==
    /\ caller[t].pc = "locked"
    /\ LET obj == _load(reg_file)
           c == caller[t]
       IN  caller' = [ caller EXCEPT ![t] =
               CASE c.op = "publish_index" ->
                      [ c EXCEPT !.pc = "loaded",
                          !.obj = [ obj EXCEPT
                             !.indexes =
                                 SetItem(@, c.index_id,
                                         IndexEntry(c.repo, c.meta)),
                             !.per_repo_latest =
                                 SetItem(@, c.repo, c.index_id) ] ]
                 [] c.op = "latest_index_id" ->
                      [ c EXCEPT !.pc = "loaded", !.obj = obj,
                          !.result = Get(obj.per_repo_latest, c.repo) ]
                 [] c.op = "get_index" ->
                      [ c EXCEPT !.pc = "loaded", !.obj = obj,
                          !.index = GetIndex(obj.indexes, c.index_id) ] ]
    /\ UNCHANGED << reg_file, _LOCK, lock_order >>

\* _save(obj) in publish_index, then the block is left and the lock released
SaveAndRelease(t) ==
    /\ caller[t].pc = "loaded"
    /\ reg_file' = IF caller[t].op = "publish_index"
                   THEN _save(caller[t].obj) ELSE reg_file
    /\ _LOCK' = Unlocked
    /\ caller' = [ caller EXCEPT ![t].pc = "done" ]
    /\ UNCHANGED lock_order

\* ------------------------------------------------------------------------
\* The secrets server (mcp-servers/secrets-server/src/server.py)
\* ------------------------------------------------------------------------

\* bound of the exploration: requests to /secrets/get
MaxSecretRequests == 3

\* SecretStore.__init__
authorized_services ==
    ("tool-server" :>
         << "OPENAI_API_KEY", "ANTHROPIC_API_KEY", "TAVILY_API_KEY" >>)
    @@ ("memory-server" :> << "QDRANT_API_KEY", "REDIS_URL", "MEM0_API_KEY" >>)
    @@ ("agent-server" :> << "PHIDATA_API_KEY", "OPENROUTER_API_KEY" >>)
    @@ ("notion-sync" :> << "NOTION_API_KEY", "N8N_API_KEY" >>)
    @@ ("gateway" :> << "PORTKEY_API_KEY", "OPENROUTER_API_KEY" >>)

\* the .env files the store is constructed from, as << key, value >> lines;
\* the file may be missing
EnvFiles ==
    { << >>,
      << << "OPENAI_API_KEY", "sk-1" >>, << "REDIS_URL", "redis://cache" >>,
         << "OPENROUTER_API_KEY", "or-2" >>, << "GITHUB_TOKEN", "gh-3" >> >>,
      << << "OPENAI_API_KEY", "sk-1" >>, << "OPENAI_API_KEY", "sk-9" >>,
         << "NOTION_API_KEY", "" >> >> }

\* 'KEY' in key or 'TOKEN' in key or 'SECRET' in key, for the keys above
HoldsSecretWord(key) ==
    key \in {"OPENAI_API_KEY", "OPENROUTER_API_KEY", "GITHUB_TOKEN",
             "NOTION_API_KEY"}

\* _load_from_env: a later line of a key replaces an earlier one; the hash and
\* the creation time kept next to the value are left out
RECURSIVE _load_from_env(_, _)
_load_from_env(secrets, lines) ==
    IF lines = << >> THEN secrets
    ELSE LET key == Head(lines)[1]
             value == Head(lines)[2]
         IN  _load_from_env(IF HoldsSecretWord(key)
                            THEN SetItem(secrets, key, [ value |-> value ])
                            ELSE secrets,
                            Tail(lines))

\* the service ids a verified token carries and the names it asks for
ServiceIds == {"tool-server", "memory-server", "notion-sync", "billing"}

SecretNames ==
    {"OPENAI_API_KEY", "REDIS_URL", "OPENROUTER_API_KEY", "NOTION_API_KEY",
     "GITHUB_TOKEN"}

\* the audit entry of an access; its timestamp is left out
AuditEntry(service_id, secret_name) ==
    [ service |-> service_id, secret |-> secret_name, action |-> "accessed" ]

\* a store that writes its audit entry before it checks the authorization
get_secret_AuditsFirst(store, service_id, secret_name) ==
    LET logged == [ store EXCEPT !.audit_log =
                      Append(@, AuditEntry(service_id, secret_name)) ]
    IN  IF service_id \notin DOMAIN authorized_services
        THEN [ value |-> None, store |-> logged ]
        ELSE IF secret_name \notin Range(authorized_services[service_id])
        THEN [ value |-> None, store |-> logged ]
        ELSE [ value |-> IF secret_name \in DOMAIN store.secrets
                         THEN store.secrets[secret_name].value ELSE None,
               store |-> logged ]

\* SecretStore.get_secret: the value returned and the store afterwards
get_secret(store, service_id, secret_name) ==
    IF service_id \notin DOMAIN authorized_services
    THEN [ value |-> None, store |-> store ]
    ELSE IF secret_name \notin Range(authorized_services[service_id])
    THEN [ value |-> None, store |-> store ]
    ELSE [ value |-> IF secret_name \in DOMAIN store.secrets
                     THEN store.secrets[secret_name].value ELSE None,
           store |-> [ store EXCEPT !.audit_log =
                         Append(@, AuditEntry(service_id, secret_name)) ] ]

\* SecretStore.__init__ with the given .env file
SecretStore(lines) ==
    [ secrets |-> _load_from_env(<< >>, lines), audit_log |-> << >> ]

\* the store of a host without the .env file
InitSecretStore ==
    /\ secret_store = SecretStore(<< >>)
    /\ answers = << >>

\* POST /secrets/get with a verified token: 403 when get_secret returned
\* None, the value otherwise
SecretsGet ==
    /\ Len(answers) < MaxSecretRequests
    /\ \E service_id \in ServiceIds, secret_name \in SecretNames :
       LET got == get_secret(secret_store, service_id, secret_name)
       IN  /\ secret_store' = got.store
           /\ answers' = Append(answers,
                  [ service_id |-> service_id, secret_name |-> secret_name,
                    status |-> IF got.value = None THEN 403 ELSE 200,
                    value |-> got.value ])

\* ------------------------------------------------------------------------
\* Specifications
\* ------------------------------------------------------------------------

\* the embedding server as constructed
InitEmbedding ==
    /\ config \in Configs
    /\ environ \in Environs
    /\ cache = << >>
    /\ datetime_now = 0
    /\ generation = [ t \in Tasks |-> IdleGeneration ]
    /\ served = << >>

\* the embedding server when only the completion client is exercised
InitEmbeddingUnused ==
    /\ config = _get_default_config
    /\ environ = {}
    /\ cache = << >>
    /\ datetime_now = 0
    /\ generation = [ t \in Tasks |-> IdleGeneration ]
    /\ served = << >>

\* the rest of the program when it is not exercised
InitRestUnused ==
    /\ InitReports
    /\ InitSwarm
    /\ InitRegistry
    /\ InitSecretStore

\* a few calls in a row, of a narrow family of requests
Init ==
    /\ InitClient
    /\ InitEmbeddingUnused
    /\ InitRestUnused
    /\ \E up \in BOOLEAN :
           workload = [ requests |-> "narrow", max_calls |-> MaxCalls,
                        max_inflight |-> 1, redis_up |-> up ]

\* one call on a fresh client, of a wide family of requests
InitSingle ==
    /\ InitClient
    /\ InitEmbeddingUnused
    /\ InitRestUnused
    /\ \E up \in BOOLEAN :
           workload = [ requests |-> "wide", max_calls |-> 1,
                        max_inflight |-> 1, redis_up |-> up ]

\* a few embedding requests in a row
InitEmb ==
    /\ InitClient
    /\ InitEmbedding
    /\ InitRestUnused
    /\ workload = [ requests |-> "embedding", max_calls |-> MaxEmbCalls,
                    max_inflight |-> 1, redis_up |-> FALSE ]

Next ==
    \/ \E p \in Tasks : Start(p) /\ UNCHANGED outsideCalls
    \/ \E p \in Tasks : RedisGet(p) /\ UNCHANGED outsideCalls
    \/ \E p \in Tasks : PostSucceeds(p) /\ UNCHANGED outsideCalls
    \/ \E p \in Tasks : PostFails(p) /\ UNCHANGED outsideCalls
    \/ \E p \in Tasks : RedisSetex(p) /\ UNCHANGED outsideCalls
    \/ \E p \in Tasks : Return(p) /\ UNCHANGED outsideCalls
    \/ Tick /\ UNCHANGED outsideCalls

NextEmb ==
    \/ \E t \in Tasks : EmbStart(t) /\ UNCHANGED outsideEmbedding
    \/ \E t \in Tasks : EmbPostOk(t) /\ UNCHANGED outsideEmbedding
    \/ \E t \in Tasks : EmbPostFails(t) /\ UNCHANGED outsideEmbedding
    \/ \E t \in Tasks : EmbReturn(t) /\ UNCHANGED outsideEmbedding
    \/ EmbTick /\ UNCHANGED outsideEmbedding

Spec == Init /\ [][Next]_vars

SpecSingle == InitSingle /\ [][Next]_vars

SpecEmb == InitEmb /\ [][NextEmb]_vars

\* ------------------------------------------------------------------------
\* _track_metrics on its own: long runs of recorded samples
\* ------------------------------------------------------------------------

\* bound of the exploration: samples recorded per model
MaxSamples == 150

\* the model whose requests are recorded one after the other, and a model
\* that answers a request only now and then in between
BusyModel == "openai/gpt-5"

RareModel == "google/gemini-2.5-flash"

TrackedModels == { BusyModel, RareModel }

\* the score _track_metrics computes for each entry of metrics_history that
\* belongs to the model, in recording order
RecordedSamples(hist, model) ==
    LET OfModel(metrics) == metrics.model_used = model
        mine == SelectSeq(hist, OfModel)
    IN  [ i \in 1..Len(mine) |->
            PerformanceScore(mine[i].success, mine[i].response_time) ]

\* the execution_time of the k-th response of a model: it varies from one
\* response to the next, so that no two windows of samples look alike
LatencyOf(k) == 500 * (1 + (k % 7))

\* a successful response of the model comes back and smart_completion
\* awaits _track_metrics(model, response, start_time, task_type) for it
Track(model) ==
    /\ workload.requests = "samples"
    /\ LET k == Len(RecordedSamples(metrics_history, model))
           busy == Len(RecordedSamples(metrics_history, BusyModel))
       IN  /\ k < workload.max_calls
           /\ model = RareModel => busy % 50 = 0 /\ k <= busy \div 50
           /\ _track_metrics(model,
                  SuccessResponse(model, "answer A", 1000, LatencyOf(k), now),
                  None)
    /\ UNCHANGED << redis, now, call, returned, workload >>

InitTrack ==
    /\ InitClient
    /\ InitEmbeddingUnused
    /\ InitRestUnused
    /\ workload = [ requests |-> "samples", max_calls |-> MaxSamples,
                    max_inflight |-> 1, redis_up |-> FALSE ]

NextTrack ==
    \E model \in TrackedModels : Track(model) /\ UNCHANGED outsideCalls

SpecTrack == InitTrack /\ [][NextTrack]_vars

\* a task's call moves on: Redis answers, and every POST ends (httpx gives
\* each request a timeout of 120 s, tenacity waits at most 30 s between tries)
Progress(p) ==
    \/ RedisGet(p) /\ UNCHANGED outsideCalls
    \/ PostSucceeds(p) /\ UNCHANGED outsideCalls
    \/ PostFails(p) /\ UNCHANGED outsideCalls
    \/ RedisSetex(p) /\ UNCHANGED outsideCalls

\* one call on a fresh client, with one of the models forced
InitForced ==
    /\ InitClient
    /\ InitEmbeddingUnused
    /\ InitRestUnused
    /\ \E up \in BOOLEAN :
           workload = [ requests |-> "forced", max_calls |-> 1,
                        max_inflight |-> 1, redis_up |-> up ]

SpecForcedFair ==
    InitForced /\ [][Next]_vars /\ \A p \in Tasks : WF_vars(Progress(p))

\* ------------------------------------------------------------------------
\* Concurrent calls on a client that has been serving for a while
\* ------------------------------------------------------------------------

\* bound of the exploration: the responses of BusyModel recorded before the
\* concurrent calls arrive (one short of the cap of its list)
PriorSamples == 99

\* the response whose _track_metrics left the k-th entry
PriorResponse(k) ==
    SuccessResponse(BusyModel, "answer A", 1000, LatencyOf(k), 0)

\* self.metrics_history after the prior responses
PriorHistory ==
    [ k \in 1..PriorSamples |->
        [ model_used |-> BusyModel,
          response_time |-> PriorResponse(k).execution_time,
          tokens_used |-> PriorResponse(k).usage,
          cost |-> PriorResponse(k).cost_estimate,
          success |-> TRUE, timestamp |-> 0, task_type |-> None ] ]

\* self.model_performance after the prior responses
PriorPerformance ==
    BusyModel :> LastN(RecordedSamples(PriorHistory, BusyModel),
                       PerformanceCap)

\* callers send the same request at once to a client that has recorded the
\* prior responses and whose cache holds nothing (its entries have expired)
InitConcurrent ==
    /\ redis = << >>
    /\ model_performance = PriorPerformance
    /\ metrics_history = PriorHistory
    /\ now = 0
    /\ call = [ p \in Tasks |-> IdleCall ]
    /\ returned = << >>
    /\ InitEmbeddingUnused
    /\ InitRestUnused
    /\ \E up \in BOOLEAN :
           workload = [ requests |-> "same", max_calls |-> MaxCalls,
                        max_inflight |-> MaxTasks, redis_up |-> up ]

SpecConcurrent == InitConcurrent /\ [][Next]_vars

\* the successful responses a client has recorded before the call that is
\* looked at: sequences of << model, execution_time >>.  The third leaves
\* claude-3-opus with an average performance of 1/2 and gpt-5 with 5/6, which
\* makes up exactly for the cost advantage of claude-3-opus: their balanced
\* scores are equal.  The fourth does the same with gpt-5 recorded first.
PriorRuns ==
    { << >>,
      << << "anthropic/claude-3-opus", 2000 >> >>,
      << << "anthropic/claude-3-opus", 2000 >>, << "openai/gpt-5", 500 >>,
         << "openai/gpt-5", 500 >>, << "openai/gpt-5", 2000 >> >>,
      << << "openai/gpt-5", 2000 >>, << "openai/gpt-5", 500 >>,
         << "anthropic/claude-3-opus", 2000 >>, << "openai/gpt-5", 500 >> >>,
      << << "google/gemini-2.5-flash", 4000 >>,
         << "openai/gpt-4o-mini", 500 >>,
         << "anthropic/claude-3-sonnet", 3000 >> >>,
      << << "openai/gpt-5", 500 >>, << "moonshot/kimi-k2", 500 >>,
         << "deepseek/deepseek-v3", 500 >> >> }

\* self.model_performance after _track_metrics of each run in turn
RECURSIVE PerformanceAfter(_)
PerformanceAfter(runs) ==
    IF runs = << >> THEN << >>
    ELSE LET run == runs[Len(runs)]
         IN  TrackedPerformance(PerformanceAfter(Front(runs)), run[1],
                 SuccessResponse(run[1], "answer A", 1000, run[2], 0))

\* self.metrics_history after _track_metrics of each run in turn
RECURSIVE HistoryAfter(_)
HistoryAfter(runs) ==
    IF runs = << >> THEN << >>
    ELSE LET run == runs[Len(runs)]
         IN  TrackedHistory(HistoryAfter(Front(runs)), run[1],
                 SuccessResponse(run[1], "answer A", 1000, run[2], 0),
                 None, 0)

\* one call under the balanced preference on a client that has recorded some
\* responses and whose cache holds nothing
InitBalanced ==
    /\ \E runs \in PriorRuns :
           /\ model_performance = PerformanceAfter(runs)
           /\ metrics_history = HistoryAfter(runs)
    /\ redis = << >>
    /\ now = 0
    /\ call = [ p \in Tasks |-> IdleCall ]
    /\ returned = << >>
    /\ InitEmbeddingUnused
    /\ InitRestUnused
    /\ workload = [ requests |-> "balanced", max_calls |-> 1,
                    max_inflight |-> 1, redis_up |-> TRUE ]

SpecBalanced == InitBalanced /\ [][Next]_vars

\* calls of one request in a row, with get_analytics and health_check asked
\* for at any moment in between
InitOps ==
    /\ InitClient
    /\ InitEmbeddingUnused
    /\ InitRestUnused
    /\ \E up \in BOOLEAN :
           workload = [ requests |-> "same", max_calls |-> MaxCalls,
                        max_inflight |-> 1, redis_up |-> up ]

NextOps ==
    \/ Next
    \/ GetAnalyticsBegin
    \/ GetAnalyticsEnd
    \/ HealthCheck

SpecOps == InitOps /\ [][NextOps]_vars

\* one call on a fresh client that goes through model selection
InitSelect ==
    /\ InitClient
    /\ InitEmbeddingUnused
    /\ InitRestUnused
    /\ workload = [ requests |-> "select", max_calls |-> 1,
                    max_inflight |-> 1, redis_up |-> TRUE ]

SpecSelect == InitSelect /\ [][Next]_vars

\* ------------------------------------------------------------------------
\* Specifications of the swarm, the registry and the secrets server
\* ------------------------------------------------------------------------

\* the completion client and the embedding server at rest
InitAtRest ==
    /\ InitClient
    /\ InitEmbeddingUnused
    /\ workload = [ requests |-> "narrow", max_calls |-> 0,
                    max_inflight |-> 0, redis_up |-> FALSE ]

outsideSwarm == << clientVars, workload, embVars, opsVars, registryVars,
                   secretVars >>

outsideRegistry == << clientVars, workload, embVars, opsVars, swarmVars,
                      secretVars >>

outsideSecrets == << clientVars, workload, embVars, opsVars, swarmVars,
                     registryVars >>

InitSwarmRuns ==
    /\ InitAtRest
    /\ InitRestUnused

NextSwarm ==
    \/ \E r \in Runs : execute_task(r) /\ UNCHANGED outsideSwarm
    \/ \E r \in Runs : CoordinatorStep(r) /\ UNCHANGED outsideSwarm
    \/ \E r \in Runs : AgentStep(r) /\ UNCHANGED outsideSwarm
    \/ \E r \in Runs : SwarmReturn(r) /\ UNCHANGED outsideSwarm

\* what workflow.ainvoke does for a run once it is started
GraphStep(r) ==
    (CoordinatorStep(r) \/ AgentStep(r) \/ SwarmReturn(r))
        /\ UNCHANGED outsideSwarm

\* the event loop keeps running every started run: the nodes are coroutines
\* that never wait for one another
SpecSwarmFair ==
    /\ InitSwarmRuns
    /\ [][NextSwarm]_vars
    /\ \A r \in Runs : WF_vars(GraphStep(r))

InitRegistryCalls ==
    /\ InitAtRest
    /\ InitRestUnused

NextRegistry ==
    \/ \E t \in Threads : RegistryCall(t) /\ UNCHANGED outsideRegistry
    \/ \E t \in Threads : Acquire(t) /\ UNCHANGED outsideRegistry
    \/ \E t \in Threads : Load(t) /\ UNCHANGED outsideRegistry
    \/ \E t \in Threads : SaveAndRelease(t) /\ UNCHANGED outsideRegistry

SpecRegistry == InitRegistryCalls /\ [][NextRegistry]_vars

\* a store constructed from any of the .env files
InitSecrets ==
    /\ InitAtRest
    /\ InitReports
    /\ InitSwarm
    /\ InitRegistry
    /\ \E lines \in EnvFiles : secret_store = SecretStore(lines)
    /\ answers = << >>

NextSecrets == SecretsGet /\ UNCHANGED outsideSecrets

SpecSecrets == InitSecrets /\ [][NextSecrets]_vars

\* ------------------------------------------------------------------------
\* Properties of smart_completion
\* ------------------------------------------------------------------------

ModelsOf(attempts) == [ i \in 1..Len(attempts) |-> attempts[i].model ]

\* C1: once the primary model has failed, the fallback models are attempted
\* in the order of the fallback chain, each with the caller's own messages,
\* max_tokens and temperature; every attempt before the current one has
\* failed, and a call that ends in success returns the result of the last
\* model attempted, leaving the rest of the chain untried.
C1_FallbackWalkInOrder ==
    \A p \in Tasks :
        LET c == call[p]
            chain == _get_fallback_chain(c.model)
            fb == Tail(c.attempts)
        IN  c.phase = "fallback" =>
              /\ c.attempts[1] = Attempt(c.model, c.req)
              /\ Len(fb) <= Len(chain)
              /\ \A i \in 1..Len(fb) : fb[i] = Attempt(chain[i], c.req)
              /\ c.pc = "http_post" => c.failed = Front(ModelsOf(c.attempts))
              /\ (c.pc = "done" /\ c.result.success) =>
                    /\ c.failed = Front(ModelsOf(c.attempts))
                    /\ c.result.model_used = chain[Len(fb)]
                    /\ ~c.result.from_cache
              /\ (c.pc = "done" /\ ~c.result.success) =>
                    /\ c.failed = ModelsOf(c.attempts)
                    /\ Len(fb) = Len(chain)

\* C1 witness: a call answered by its second fallback model
C1_Witness ==
    \E p \in Tasks :
        /\ call[p].pc = "done" /\ call[p].result.success
        /\ call[p].phase = "fallback" /\ Len(call[p].attempts) = 3
        /\ call[p].req.max_tokens = 256

\* C2 (as claimed): when the primary model and the whole chain fail, the
\* failure object carries the message of the primary model's own failure and
\* names the primary model.
C2_ErrorIsOriginalMessage ==
    \A p \in Tasks :
        LET c == call[p]
        IN  (c.pc = "done" /\ ~c.result.success /\ c.req.enable_fallback) =>
              /\ c.result.model_attempted = c.model
              /\ c.result.error = c.e.cause

\* C3 (as claimed): the chain is the other models of the failed model's tier
\* in map order, then all models of the other tiers by ascending cost, so it
\* holds every model but the failed one.
C3_ChainHoldsEveryOtherModel ==
    \A p \in Tasks :
        LET c == call[p]
        IN  (c.e.type = "RetryError" /\ c.req.enable_fallback) =>
              Range(c.fallback_models) = ModelNames \ {c.model}

PositionIn(order, m) == CHOOSE i \in 1..Len(order) : order[i] = m

SameTierAs(m) ==
    { n \in ModelNames : models[n].tier = models[m].tier /\ n # m }

OtherTiersThan(m) == { n \in ModelNames : models[n].tier # models[m].tier }

\* C3 (amended): the chain is the other models of the failed model's tier in
\* map order, then only the three cheapest models of the other tiers by
\* ascending cost.
C3_ChainSameTierThenThreeCheapest ==
    \A p \in Tasks :
        LET c == call[p]
            L == c.fallback_models
            k == Cardinality(SameTierAs(c.model))
        IN  (c.e.type = "RetryError" /\ c.req.enable_fallback) =>
              /\ Len(L) = k + Min2(FallbackOtherLimit,
                                   Cardinality(OtherTiersThan(c.model)))
              /\ { L[i] : i \in 1..k } = SameTierAs(c.model)
              /\ \A i, j \in 1..k :
                     i < j => PositionIn(ModelOrder, L[i])
                              < PositionIn(ModelOrder, L[j])
              /\ \A i \in (k + 1)..Len(L) : L[i] \in OtherTiersThan(c.model)
              /\ \A i, j \in (k + 1)..Len(L) :
                     i < j => models[L[i]].cost_per_1m_tokens
                              < models[L[j]].cost_per_1m_tokens
              /\ \A i \in (k + 1)..Len(L) :
                     \A n \in OtherTiersThan(c.model) \ Range(L) :
                         models[L[i]].cost_per_1m_tokens
                         <= models[n].cost_per_1m_tokens

\* C3 witness: the chain built after a flash-tier model failed
C3_Witness ==
    \E p \in Tasks :
        /\ call[p].e.type = "RetryError" /\ call[p].req.enable_fallback
        /\ call[p].model = "deepseek/deepseek-v3"
        /\ Len(call[p].fallback_models) = 6

SamplesOf(m) ==
    IF m \in DOMAIN model_performance THEN model_performance[m] ELSE << >>

\* C4 (as claimed): a call that missed the cache has appended one sample per
\* attempt to the attempted model's list, 0 for each failed attempt.
\* (Stated for the first call of a fresh client, whose lists start empty.)
C4_EveryAttemptSampled ==
    \A p \in Tasks :
        LET c == call[p]
        IN  (c.pc = "done" /\ c.attempts # << >> /\ returned = << >>) =>
              \A m \in ModelNames :
                 /\ Len(SamplesOf(m))
                      = Cardinality({ i \in 1..Len(c.attempts) :
                                          c.attempts[i].model = m })
                 /\ m \in Range(c.failed) => SamplesOf(m) = << 0 >>

\* C5 (as claimed): a call that missed the cache and returns success, from
\* the primary or from a fallback model, leaves its result stored under the
\* request's key with a fresh TTL.
C5_SuccessIsStored ==
    \A p \in Tasks :
        LET c == call[p]
        IN  (c.pc = "done" /\ c.req.enable_cache /\ workload.redis_up
             /\ c.result.success /\ ~c.result.from_cache) =>
              /\ c.cache_key \in DOMAIN redis
              /\ redis[c.cache_key].data = CacheData(c.result)
              /\ redis[c.cache_key].expiry = now + cache_ttl

LastReturned == returned[Len(returned)]

\* a step of task p that ends its call in failure
EndsInFailure(p) ==
    /\ call[p].pc # "done"
    /\ call'[p].pc \in {"done", "raised"}
    /\ call'[p].pc = "done" => ~call'[p].result.success

\* C6: a cache entry is written only by the step that stores a successful
\* response; the step that ends a call in failure leaves the cache as it was,
\* every stored entry is a success result, and the call that follows a failed
\* call with the same request is a miss again and asks a provider.
C6_CacheWrittenOnlyOnSuccess ==
    /\ [][ /\ \A p \in Tasks : EndsInFailure(p) => redis' = redis
           /\ (\E k \in DOMAIN redis' :
                   k \notin DOMAIN redis \/ redis'[k] # redis[k]) =>
                 \E p \in Tasks :
                     /\ call[p].pc = "redis_setex"
                     /\ call'[p].pc = "done" /\ call'[p].result.success
                     /\ redis' = Setex(redis, call[p].cache_key, cache_ttl,
                                       CacheData(call'[p].result)) ]_vars
    /\ [](\A k \in DOMAIN redis : redis[k].data.success)
    /\ [](\A p \in Tasks :
            (/\ call[p].pc = "done"
             /\ returned # << >>
             /\ LastReturned.req = call[p].req
             /\ call[p].req.enable_cache
             /\ ~LastReturned.raised /\ ~LastReturned.result.success) =>
               /\ ~call[p].result.from_cache
               /\ call[p].posts >= 1)

\* C6 witness: the call after a failed call with the same request, done
C6_Witness ==
    \E p \in Tasks :
        /\ call[p].pc = "done" /\ returned # << >>
        /\ LastReturned.req = call[p].req /\ call[p].req.enable_cache
        /\ workload.redis_up /\ DOMAIN redis # {}
        /\ ~LastReturned.raised /\ ~LastReturned.result.success

\* C7 (as claimed): the same request twice within the TTL, the first call
\* successful: both calls return the same content, the first not from the
\* cache and the second from the cache.
C7_SecondCallIsHit ==
    \A p \in Tasks :
        (/\ call[p].pc = "done"
         /\ returned # << >>
         /\ LastReturned.req = call[p].req
         /\ call[p].req.enable_cache /\ workload.redis_up
         /\ ~LastReturned.raised /\ LastReturned.result.success
         /\ ~LastReturned.result.from_cache
         /\ now < LastReturned.at + cache_ttl) =>
           /\ call[p].result.from_cache
           /\ call[p].result.content = LastReturned.result.content

\* C8: a call answered from the cache has selected no model, has made no
\* provider call, and none of its steps changed model_performance or
\* metrics_history.
C8_HitHasNoSideEffect ==
    /\ [][ \A p \in Tasks :
             (\/ call[p].pc = "idle" /\ call'[p].pc = "redis_get"
              \/ call[p].pc = "redis_get" /\ call'[p].pc = "done") =>
                 /\ model_performance' = model_performance
                 /\ metrics_history' = metrics_history ]_vars
    /\ [](\A p \in Tasks :
            (call[p].pc = "done" /\ call[p].result.from_cache) =>
               /\ ~call[p].selected
               /\ call[p].model = None
               /\ call[p].attempts = << >>
               /\ call[p].posts = 0
               /\ call[p].result = FromCache(redis[call[p].cache_key].data))

\* C8 witness: a call answered from the cache while samples are on record
C8_Witness ==
    \E p \in Tasks :
        /\ call[p].pc = "done" /\ call[p].result.from_cache
        /\ metrics_history # << >>

\* the age of the entry the cache holds under a key
AgeOf(cache_key) == datetime_now - cache[cache_key].timestamp

\* the entry under a key is the result of the generation g, stored now
FreshlyStored(store, g) ==
    /\ g.cache_key \in DOMAIN store
    /\ store[g.cache_key] = [ response |-> g.result,
                              timestamp |-> datetime_now ]
    /\ g.result.timestamp = datetime_now
    /\ ~g.result.cache_hit

\* C9: a lookup never returns an entry whose age has reached the configured
\* TTL. A request that finds such an entry is a miss: the stale entry leaves
\* the cache, the request is generated again through its provider function,
\* and when that generation ends its result is the entry under the key.
C9_ExpiredEntryIsMiss ==
    [][ \A t \in Tasks :
          LET g == generation[t]
              h == generation'[t]
          IN  /\ (g.pc = "idle" /\ h.pc # "idle" /\ config.cache_embeddings
                    /\ h.cache_key \in DOMAIN cache
                    /\ AgeOf(h.cache_key) >= config.cache_ttl_hours) =>
                    /\ h.lookup = "expired"
                    /\ h.stage = "primary"
                    /\ \/ h.pc = "post" /\ h.cache_key \notin DOMAIN cache'
                       \/ h.pc = "done" /\ FreshlyStored(cache', h)
              /\ (g.pc = "idle" /\ h.pc = "done" /\ h.result.cache_hit) =>
                    /\ h.cache_key \in DOMAIN cache
                    /\ AgeOf(h.cache_key) < config.cache_ttl_hours
                    /\ h.lookup = "fresh"
              /\ (g.pc = "post" /\ g.lookup = "expired" /\ h.pc # "post") =>
                    /\ h.pc = "done" /\ h.posts = 1
                    /\ FreshlyStored(cache', h) ]_vars

\* C9 witness: a request found its entry expired, was sent to the provider
\* again, and its result is now the entry under the key
C9_Witness ==
    \E t \in Tasks :
        /\ generation[t].pc = "done"
        /\ generation[t].lookup = "expired"
        /\ generation[t].posts = 1
        /\ ~generation[t].result.metadata.mock
        /\ FreshlyStored(cache, generation[t])
        /\ datetime_now >= config.cache_ttl_hours

\* C10 (as claimed): smart_completion never raises to its caller.
C10_NeverRaises == \A p \in Tasks : call[p].pc # "raised"


\* ------------------------------------------------------------------------
\* Properties of model selection
\* ------------------------------------------------------------------------

\* the models that list the task tag among their strengths (all of them when
\* no tag is given), in model-map order
Candidates(task_type) ==
    IF task_type = None THEN ModelOrder
    ELSE FilterOrder(ModelOrder,
             { n \in ModelNames : task_type \in models[n].strengths })

\* the call of task p has been through model selection
Selecting(p) ==
    /\ call[p].pc \notin {"idle", "redis_get"}
    /\ call[p].selected

\* C11 (as claimed): when no model lists the request's task tag, selection
\* fails with a NoSuitableModel error, whatever the cost preference is, and
\* the caller receives that error.
C11_FailsWithNoSuitableModel ==
    \A p \in Tasks :
        (Selecting(p) /\ Candidates(call[p].req.task_type) = << >>) =>
            /\ call[p].pc = "raised"
            /\ call[p].e.type = "NoSuitableModel"

\* C12: on a cache miss a force_model that is a key of the model map is the
\* first model attempted and no selection is made, whatever the selection
\* inputs are; a force_model that is not a key of the map is ignored: the
\* call goes through selection and does what selection does for the same
\* task_type, complexity, urgency and cost_preference.
C12_ForceModel ==
    \A p \in Tasks :
        LET c == call[p]
            req == c.req
            sel == _select_optimal_model(req.task_type, req.complexity,
                       req.urgency, req.cost_preference, model_performance)
        IN  c.pc \in {"http_post", "redis_setex", "raised"} =>
              /\ req.force_model \in ModelNames =>
                    /\ ~c.selected
                    /\ c.pc # "raised"
                    /\ c.model = req.force_model
                    /\ c.attempts[1] = Attempt(req.force_model, req)
              /\ (req.force_model # None
                    /\ req.force_model \notin ModelNames) =>
                    /\ c.selected
                    /\ sel.raised <=> c.pc = "raised"
                    /\ ~sel.raised =>
                         /\ c.model = sel.model
                         /\ c.attempts[1] = Attempt(sel.model, req)

\* C12 witness: a call with an unknown force_model is attempting the model
\* that selection returns for its task tag
C12_Witness ==
    \E p \in Tasks :
        LET c == call[p]
        IN  /\ c.pc = "http_post"
            /\ c.req.task_type = "creative"
            /\ c.req.cost_preference = "cost"
            /\ c.req.force_model = UnknownModel
            /\ c.model = "anthropic/claude-3-opus"

\* C13: every model's model_performance list has at most 100 entries and is
\* the most recent min(n, 100) of the n samples recorded for the model, in
\* recording order.
C13_LastHundredSamples ==
    \A m \in ModelNames :
        LET recorded == RecordedSamples(metrics_history, m)
        IN  /\ Len(SamplesOf(m)) <= PerformanceCap
            /\ Len(SamplesOf(m)) = Min2(Len(recorded), PerformanceCap)
            /\ SamplesOf(m) = LastN(recorded, PerformanceCap)

\* C13 witness: 150 samples recorded for a model, samples 51..150 remain
C13_Witness ==
    \E m \in TrackedModels :
        LET recorded == RecordedSamples(metrics_history, m)
        IN  /\ Len(recorded) = 150
            /\ Len(SamplesOf(m)) = 100
            /\ SamplesOf(m) = SubSeq(recorded, 51, 150)
            /\ SamplesOf(m) # SubSeq(recorded, 1, 100)

\* no element occurs twice in the sequence
NoRepeat(s) == \A i, j \in 1..Len(s) : s[i] = s[j] => i = j

\* C14: within one call no model is attempted twice, over the primary
\* attempt and the fallback walk together: the fallback chain holds neither
\* the failed primary model nor any model twice.
C14_NoModelTwice ==
    \A p \in Tasks :
        LET c == call[p]
        IN  /\ NoRepeat(ModelsOf(c.attempts))
            /\ NoRepeat(c.failed)
            /\ NoRepeat(c.fallback_models)
            /\ c.model \notin Range(c.fallback_models)
            /\ c.model # None =>
                  /\ NoRepeat(_get_fallback_chain(c.model))
                  /\ c.model \notin Range(_get_fallback_chain(c.model))

\* C14 witness: a call that walked its whole chain of six fallback models
C14_Witness ==
    \E p \in Tasks :
        /\ call[p].pc = "done" /\ ~call[p].result.success
        /\ Len(call[p].fallback_models) = 6
        /\ Len(call[p].attempts) = 7

\* C15: one model attempt sends at most 3 POSTs and is given up after the
\* third failure in a row, so a call sends at most 3 * (1 + length of the
\* fallback chain) POSTs; and a call that has started attempting models
\* always ends with a result.
C15_BoundedCallsAndTermination ==
    /\ [](\A p \in Tasks :
            LET c == call[p]
            IN  c.attempts # << >> =>
                  /\ c.tries <= RetryAttempts
                  /\ c.pc = "http_post" =>
                        c.posts = RetryAttempts * Len(c.failed) + c.tries - 1
                  /\ (c.pc = "done" /\ ~c.result.success) =>
                        c.posts = RetryAttempts * Len(c.attempts)
                  /\ c.posts <= RetryAttempts * Len(c.attempts)
                  /\ c.posts <= RetryAttempts
                                  * (1 + Len(_get_fallback_chain(c.model))))
    /\ \A p \in Tasks :
          (call[p].pc = "http_post") ~>
              (call[p].pc = "done" /\ call[p].result # NoResult)

\* C15 witness: a call that failed after the largest number of POSTs, three
\* for the primary model and three for each of six fallback models
C15_Witness ==
    \E p \in Tasks :
        /\ call[p].pc = "done" /\ ~call[p].result.success
        /\ call[p].posts = 21

\* ------------------------------------------------------------------------
\* Properties of concurrent calls
\* ------------------------------------------------------------------------

\* the calls that ended with a provider's response: each recorded a sample
Recorders ==
    Cardinality({ i \in 1..Len(returned) :
                    /\ ~returned[i].raised
                    /\ returned[i].result.success
                    /\ ~returned[i].result.from_cache })
    + Cardinality({ p \in Tasks :
                    /\ call[p].pc = "done"
                    /\ call[p].result.success
                    /\ ~call[p].result.from_cache })

\* C16: with calls interleaved in every possible way, recording a sample is
\* one indivisible step: it appends the sample to its model's list and trims
\* the list to its last 100 entries, the other lists are untouched, and no
\* sample is lost: after k recordings for a model its list is the last
\* min(k, 100) samples recorded.
C16_NoSampleLost ==
    /\ [][ metrics_history' # metrics_history =>
             /\ Len(metrics_history') = Len(metrics_history) + 1
             /\ Front(metrics_history') = metrics_history
             /\ LET last == metrics_history'[Len(metrics_history')]
                    m == last.model_used
                    sample == PerformanceScore(last.success,
                                               last.response_time)
                IN  /\ DOMAIN model_performance'
                         = DOMAIN model_performance \cup {m}
                    /\ model_performance'[m]
                         = LastN(Append(SamplesOf(m), sample), PerformanceCap)
                    /\ \A n \in DOMAIN model_performance \ {m} :
                          model_performance'[n] = model_performance[n] ]_vars
    /\ [](\A m \in ModelNames :
            SamplesOf(m) = LastN(RecordedSamples(metrics_history, m),
                                 PerformanceCap))
    /\ [](Len(metrics_history) = Len(PriorHistory) + Recorders)

\* C16 witness: two calls in flight at once have both recorded a sample for
\* the same model, and the list was trimmed
C16_Witness ==
    /\ \A p \in {1, 2} :
          /\ call[p].pc = "done"
          /\ call[p].result.model_used = BusyModel
          /\ ~call[p].result.from_cache
    /\ Len(RecordedSamples(metrics_history, BusyModel)) = PriorSamples + 2
    /\ Len(SamplesOf(BusyModel)) = PerformanceCap
    /\ SamplesOf(BusyModel)
         = LastN(RecordedSamples(metrics_history, BusyModel), PerformanceCap)

\* the calls that missed, succeeded on their primary model and stored the
\* response, and have not yet returned
Writers ==
    { p \in Tasks : /\ call[p].pc = "done"
                    /\ call[p].req.enable_cache
                    /\ call[p].result.success
                    /\ ~call[p].result.from_cache
                    /\ call[p].phase = "primary" }

\* C17: concurrent requests with the same cache key that all miss and all
\* succeed leave exactly one entry under that key, and its value is the
\* complete response of one single request, the last one to write: every
\* write to the cache is the SETEX of one call and replaces the whole value
\* under the call's key with that call's response, leaving other keys alone,
\* and while the writers have not yet returned the stored value is the
\* response of one of them, not a mixture of several.
C17_OneWholeEntry ==
    /\ [][ redis' # redis /\ now' = now =>
             \E p \in Tasks :
                 /\ call[p].pc = "redis_setex"
                 /\ call'[p].pc = "done"
                 /\ DOMAIN redis' = DOMAIN redis \cup {call[p].cache_key}
                 /\ redis'[call[p].cache_key].data = CacheData(call'[p].result)
                 /\ \A k \in DOMAIN redis \ {call[p].cache_key} :
                        redis'[k] = redis[k] ]_vars
    /\ []( workload.redis_up /\ returned = << >> =>
             \A p \in Writers :
                 /\ call[p].cache_key \in DOMAIN redis
                 /\ \E q \in Writers :
                        /\ call[q].cache_key = call[p].cache_key
                        /\ redis[call[p].cache_key].data = CacheData(call[q].result) )

\* two requests with the same key have both missed, both succeeded with
\* different responses and both written; the entry is the response of one
C17_Witness ==
    /\ workload.requests = "same"
    /\ workload.redis_up
    /\ Writers = {1, 2}
    /\ call[1].cache_key = call[2].cache_key
    /\ call[1].result.content # call[2].result.content
    /\ call[1].result.usage # call[2].result.usage
    /\ DOMAIN redis = {call[1].cache_key}
    /\ redis[call[1].cache_key].data = CacheData(call[2].result)

\* the calls that run without a cache: caching disabled by the caller, or
\* the cache backend unreachable
Uncached == { p \in Tasks : /\ call[p].pc \in {"done", "raised"}
                            /\ \/ ~call[p].req.enable_cache
                               \/ ~workload.redis_up }

\* the primary model of a request on a client without recorded performance
\* (lines 197-203), whatever its enable_cache
PrimaryOf(req) ==
    IF req.force_model # None /\ req.force_model \in ModelNames
    THEN Returned(req.force_model)
    ELSE _select_optimal_model(req.task_type, req.complexity, req.urgency,
                               req.cost_preference, << >>)

\* the models of a request in the order smart_completion would try them
ModelsToTry(req) ==
    IF PrimaryOf(req).raised THEN << >>
    ELSE << PrimaryOf(req).model >> \o
         (IF req.enable_fallback
          THEN _get_fallback_chain(PrimaryOf(req).model) ELSE << >>)

\* the outcome of a complete call as a function of its request without
\* enable_cache and of what the provider answered (the models that failed,
\* the first error, the body of the successful answer)
OutcomeWithoutCache(c) ==
    LET sel == PrimaryOf(c.req)
        full == ModelsToTry(c.req)
        tried == ModelsOf(c.attempts)
    IN  /\ (c.pc = "raised") <=> sel.raised
        /\ tried = Take(full, Min2(Len(c.failed) + 1, Len(full)))
        /\ c.failed = Take(tried, Len(c.failed))
        /\ c.pc = "done" =>
               IF Len(c.failed) = Len(tried)
               THEN c.result = FailureResult(c.e, sel.model,
                                             (now - c.start_time) * 1000)
               ELSE c.result = SuccessResponse(tried[Len(tried)],
                                   c.result.content, c.result.usage,
                                   c.result.execution_time, c.result.timestamp)

\* C18: with the cache backend unreachable smart_completion behaves as with
\* caching disabled: the lookup is a miss, nothing is stored, and the models
\* attempted and the result returned (or the exception raised) are the same
\* function of the request and of the provider's answers in both cases, a
\* function in which neither enable_cache nor the cache takes part.
C18_UnreachableCacheIsNoCache ==
    \A p \in Uncached : /\ OutcomeWithoutCache(call[p])
                        /\ redis = << >>
                        /\ call[p].pc = "done" => ~call[p].result.from_cache

\* a caller asked for caching, the backend was down at the lookup and at the
\* write; the primary model failed and a fallback model answered
C18_Witness ==
    \E p \in Uncached :
        /\ call[p].req.enable_cache
        /\ ~workload.redis_up
        /\ call[p].cache_key # None
        /\ call[p].pc = "done"
        /\ call[p].result.success
        /\ Len(call[p].failed) = 1
        /\ Len(call[p].attempts) = 2

\* x stands before m in the candidates sorted ascending by cost (a stable
\* sort: equal costs keep the order of the candidate list)
SortsBefore(x, m, cands) ==
    \/ models[x].cost_per_1m_tokens < models[m].cost_per_1m_tokens
    \/ /\ models[x].cost_per_1m_tokens = models[m].cost_per_1m_tokens
       /\ PositionIn(cands, x) < PositionIn(cands, m)

\* the index (from 0) of candidate m in the cost-sorted candidates
CostIndexOf(m, cands) ==
    Cardinality({ x \in Range(cands) : SortsBefore(x, m, cands) })

\* C19: under cost_preference "cost" selection returns, of the task-filtered
\* candidates sorted ascending by cost, the one at index 0 when complexity is
\* below 0.3, at index min(1, n-1) when it is in [0.3, 0.7), and at index
\* min(2, n-1) when it is 0.7 or more, n being the number of candidates (at
\* least one); with low complexity that is the cheapest candidate.
C19_CostPreferenceIndex ==
    \A p \in Tasks :
        LET req == call[p].req
            cands == Candidates(req.task_type)
            n == Len(cands)
            m == call[p].model
        IN  (Selecting(p) /\ req.cost_preference = "cost" /\ n > 0) =>
              /\ call[p].pc # "raised"
              /\ m \in Range(cands)
              /\ CostIndexOf(m, cands) =
                     IF req.complexity < 300 THEN 0
                     ELSE IF req.complexity < 700 THEN Min2(1, n - 1)
                     ELSE Min2(2, n - 1)
              /\ req.complexity < 300 =>
                     \A x \in Range(cands) :
                         models[m].cost_per_1m_tokens
                             <= models[x].cost_per_1m_tokens

\* a "review" request (two candidates) of complexity exactly 0.7 under "cost":
\* index 2 is clamped to 1 and the dearer of the two is attempted
C19_Witness ==
    \E p \in Tasks :
        /\ Selecting(p)
        /\ call[p].pc = "http_post"
        /\ call[p].req.cost_preference = "cost"
        /\ call[p].req.task_type = "review"
        /\ call[p].req.complexity = 700
        /\ Len(Candidates("review")) = 2
        /\ call[p].model = "anthropic/claude-3-opus"
        /\ call[p].attempts = << Attempt("anthropic/claude-3-opus", call[p].req) >>

\* the first entry of the candidates that is of the tier (None when there is
\* none), by position and not by filtering
FirstOfTier(cands, tier) ==
    IF \E i \in 1..Len(cands) : models[cands[i]].tier = tier
    THEN cands[CHOOSE i \in 1..Len(cands) :
                   /\ models[cands[i]].tier = tier
                   /\ \A j \in 1..(i - 1) : models[cands[j]].tier # tier]
    ELSE None

\* C20: under cost_preference "performance" selection returns the first
\* power-tier candidate (in model-map order) when complexity is above 0.7 and
\* a task-filtered candidate of the power tier exists; otherwise the first
\* balanced-tier candidate when one exists; otherwise the first task-filtered
\* candidate (there being at least one).
C20_PerformancePreference ==
    \A p \in Tasks :
        LET req == call[p].req
            cands == Candidates(req.task_type)
            power == FirstOfTier(cands, "power")
            balanced == FirstOfTier(cands, "balanced")
        IN  (Selecting(p) /\ req.cost_preference = "performance"
               /\ cands # << >>) =>
              /\ call[p].pc # "raised"
              /\ call[p].model =
                     IF req.complexity > 700 /\ power # None THEN power
                     ELSE IF balanced # None THEN balanced
                     ELSE cands[1]

\* an "analysis" request of complexity just above 0.7 under "performance":
\* the first of the two power candidates is attempted, although balanced
\* candidates stand before it in the model map
C20_Witness ==
    \E p \in Tasks :
        /\ Selecting(p)
        /\ call[p].pc = "http_post"
        /\ call[p].req.cost_preference = "performance"
        /\ call[p].req.task_type = "analysis"
        /\ call[p].req.complexity = 701
        /\ call[p].model = "anthropic/claude-3-opus"
        /\ FirstOfTier(Candidates("analysis"), "balanced") # None
        /\ "openai/gpt-5" \in Range(Candidates("analysis"))

\* average of a model's recorded performance as the fraction sum / (100 * n),
\* 0 / 100 when nothing is recorded (the samples are hundredths)
HistorySum(m, perf) == IF m \in DOMAIN perf THEN SumSeq(perf[m]) ELSE 0

HistoryLen(m, perf) == IF m \in DOMAIN perf THEN Len(perf[m]) ELSE 1

\* the score of the claim times 1000 * max_cost * HistoryLen: tier base score
\* + 0.2 complexity-bracket bonus + 0.3 * average performance + 0.2 * (1 -
\* cost / max_cost)
ScoreTimesLen(m, complexity, perf) ==
    LET tier == models[m].tier
        n == HistoryLen(m, perf)
        base == CASE tier = "flash" -> 600 [] tier = "balanced" -> 800
                  [] tier = "specialist" -> 900 [] tier = "power" -> 1000
        bonus == IF \/ complexity < 300 /\ tier = "flash"
                    \/ complexity >= 300 /\ complexity < 700 /\ tier = "balanced"
                    \/ complexity >= 700 /\ tier \in {"power", "specialist"}
                 THEN 200 ELSE 0
    IN  (base + bonus) * n * max_cost
          + 3 * max_cost * HistorySum(m, perf)
          + 200 * n * (max_cost - models[m].cost_per_1m_tokens)

\* the score of a is below the score of b
ScoreBelow(a, b, complexity, perf) ==
    ScoreTimesLen(a, complexity, perf) * HistoryLen(b, perf)
        < ScoreTimesLen(b, complexity, perf) * HistoryLen(a, perf)

\* C21: under the balanced preference selection returns a task-filtered
\* candidate whose score (tier base score + 0.2 complexity-bracket bonus +
\* 0.3 * average of its performance history, 0 if none, + 0.2 * normalized
\* inverse cost) is maximal among the candidates (at least one), and every
\* candidate that stands before it in model-map order scores strictly less:
\* of several candidates with the maximal score the first is returned.
\* (Looked at while the call is attempting its primary model, when
\* model_performance is still what selection read.)
C21_BalancedMaxScoreFirst ==
    \A p \in Tasks :
        LET req == call[p].req
            cands == Candidates(req.task_type)
            m == call[p].model
        IN  (Selecting(p) /\ req.cost_preference = "balanced"
               /\ cands # << >> /\ call[p].pc \in {"http_post", "redis_setex"}) =>
              /\ m \in Range(cands)
              /\ \A x \in Range(cands) :
                     ~ScoreBelow(m, x, req.complexity, model_performance)
              /\ \A x \in Range(cands) :
                     PositionIn(cands, x) < PositionIn(cands, m) =>
                         ScoreBelow(x, m, req.complexity, model_performance)

\* claude-3-opus and gpt-5 share the maximal score of an "analysis" request
\* of high complexity (the recorded performance of gpt-5 makes up for its
\* cost); claude-3-opus, which stands first in the model map, is attempted
C21_Witness ==
    \E p \in Tasks :
        /\ Selecting(p)
        /\ call[p].pc = "http_post"
        /\ call[p].req.cost_preference = "balanced"
        /\ call[p].req.task_type = "analysis"
        /\ call[p].req.complexity = 700
        /\ call[p].model = "anthropic/claude-3-opus"
        /\ "openai/gpt-5" \in DOMAIN model_performance
        /\ ~ScoreBelow("openai/gpt-5", "anthropic/claude-3-opus", 700,
                       model_performance)
        /\ ~ScoreBelow("anthropic/claude-3-opus", "openai/gpt-5", 700,
                       model_performance)

\* the results the program holds or has handed out: of the calls that are
\* complete, of the calls that have returned, the response about to be
\* stored, and the entries of the cache
ResultsAbout ==
    { call[p].result : p \in { q \in Tasks : call[q].pc = "done" } }
    \cup { call[p].response : p \in { q \in Tasks : call[q].pc = "redis_setex" } }
    \cup { returned[i].result :
               i \in { j \in 1..Len(returned) : ~returned[j].raised } }
    \cup { FromCache(redis[k].data) : k \in DOMAIN redis }

\* C22: every successful result of smart_completion, freshly executed, from a
\* fallback model or served from the cache, has a model_used that is a key of
\* the model map; no model name absent from the map is ever attempted, and
\* the model a successful fresh result names is the last one attempted.
C22_ModelUsedIsKnown ==
    /\ \A r \in ResultsAbout : r.success => r.model_used \in DOMAIN models
    /\ \A p \in Tasks :
           /\ \A i \in 1..Len(call[p].attempts) :
                  call[p].attempts[i].model \in DOMAIN models
           /\ (call[p].pc = "done" /\ call[p].result.success
                  /\ ~call[p].result.from_cache) =>
                  call[p].result.model_used =
                      call[p].attempts[Len(call[p].attempts)].model

\* the first call returned a freshly executed answer; the second call is
\* served from the cache, without an attempt, an entry that names a model of
\* the map
C22_Witness ==
    /\ Len(returned) = 1
    /\ returned[1].result.success
    /\ ~returned[1].result.from_cache
    /\ \E p \in Tasks :
           /\ call[p].pc = "done"
           /\ call[p].result.success
           /\ call[p].result.from_cache
           /\ call[p].result.model_used \in DOMAIN models
           /\ call[p].attempts = << >>

\* ------------------------------------------------------------------------
\* Properties of get_analytics and health_check
\* ------------------------------------------------------------------------

\* the reports of get_analytics, by position in reports
AnalyticsReports == { i \in 1..Len(reports) : reports[i].op = "get_analytics" }

RECURSIVE SumOfCounts(_, _)
SumOfCounts(usage, names) ==
    IF names = {} THEN 0
    ELSE LET m == CHOOSE x \in names : TRUE
         IN  usage[m].count + SumOfCounts(usage, names \ {m})

\* get_analytics and health_check change neither the history, nor the
\* performance lists, nor the cache
OpsAreReadOnly ==
    [][ (reports' # reports \/ reporting' # reporting) =>
            /\ metrics_history' = metrics_history
            /\ model_performance' = model_performance
            /\ redis' = redis ]_vars

\* the three figures of the claim, for a report made from a history that is
\* not empty
FiguresOfHistory(i) ==
    LET h == reports[i].read
        r == reports[i].report
        Succeeded(m) == m.success
    IN  h # << >> =>
          /\ r.overview.total_requests = Len(h)
          /\ SumOfCounts(r.model_performance, DOMAIN r.model_performance)
                 = r.overview.total_requests
          /\ r.overview.success_rate
                 = Ratio(Len(SelectSeq(h, Succeeded)), r.overview.total_requests)

Stripped(content) == IF content = " hi" THEN "hi" ELSE content

\* two message sequences that differ at most in leading or trailing
\* whitespace of their contents
SameButWhitespace(a, b) ==
    /\ Len(a) = Len(b)
    /\ \A i \in 1..Len(a) :
           /\ a[i].role = b[i].role
           /\ Stripped(a[i].content) = Stripped(b[i].content)

\* C24 (as claimed): two requests whose messages differ only in incidental
\* whitespace, with the same task tag and the same rounded temperature, get
\* the same cache key, and the second, issued while the entry the first one
\* stored is in the cache, is served from that entry.
C24_WhitespaceSameKey ==
    \A p \in Tasks :
        (/\ call[p].pc = "done"
         /\ returned # << >>
         /\ call[p].req.enable_cache /\ LastReturned.req.enable_cache
         /\ SameButWhitespace(LastReturned.req.messages, call[p].req.messages)
         /\ LastReturned.req.task_type = call[p].req.task_type
         /\ Round1(LastReturned.req.temperature) = Round1(call[p].req.temperature)
         /\ workload.redis_up
         /\ LastReturned.cache_key \in DOMAIN redis) =>
           /\ call[p].cache_key = LastReturned.cache_key
           /\ call[p].result.from_cache
           /\ call[p].posts = 0

\* the key under which the cache would hold an answer to the request
KeyOf(req) == _generate_cache_key(req.messages, req.task_type, req.temperature)

\* C25: the cache key is determined by messages, task_type and the rounded
\* temperature only, and the cache is consulted before force_model is looked
\* at: of two caching requests that agree in these three the keys are equal
\* whatever their force_model and other parameters; a caching call is
\* attempting a model only if the cache (reachable) holds no entry under its
\* key; and a call served from the cache returns the stored entry, with no
\* model attempted, also when it asked for a force_model of the map that is
\* not the model_used of the entry.
C25_CacheBeforeForceModel ==
    \A p \in Tasks :
        LET c == call[p]
        IN  /\ (c.pc # "idle" /\ c.req.enable_cache) =>
                 /\ c.cache_key = KeyOf(c.req)
                 /\ \A i \in 1..Len(returned) :
                      (/\ returned[i].req.enable_cache
                       /\ returned[i].req.messages = c.req.messages
                       /\ returned[i].req.task_type = c.req.task_type
                       /\ Round1(returned[i].req.temperature)
                              = Round1(c.req.temperature)) =>
                          returned[i].cache_key = c.cache_key
            /\ (c.pc \in {"http_post", "redis_setex"} /\ c.req.enable_cache
                  /\ workload.redis_up) =>
                 KeyOf(c.req) \notin DOMAIN redis
            /\ (c.pc = "done" /\ c.result.from_cache) =>
                 /\ c.attempts = << >>
                 /\ c.posts = 0
                 /\ c.model = None
                 /\ c.cache_key \in DOMAIN redis
                 /\ c.result = FromCache(redis[c.cache_key].data)

\* a call that forced gpt-5 is answered from the entry an unforced call left,
\* whose model_used is another model; gpt-5 was not attempted
C25_Witness ==
    \E p \in Tasks :
        /\ call[p].pc = "done"
        /\ call[p].req.force_model = "openai/gpt-5"
        /\ call[p].result.from_cache
        /\ call[p].result.success
        /\ call[p].result.model_used # "openai/gpt-5"
        /\ call[p].attempts = << >>
        /\ returned # << >>
        /\ LastReturned.req.force_model = None
        /\ LastReturned.req.max_tokens = call[p].req.max_tokens

\* ------------------------------------------------------------------------
\* Properties of the embedding server's fallback
\* ------------------------------------------------------------------------

\* the chain without the entries equal to the failed request's model_id
ChainFor(request) ==
    LET Other(m) == m # request.model_id
    IN  SelectSeq(config.fallback_chain, Other)

\* a chain entry from which _try_fallback gets a response: its configuration
\* is found and its provider is one of the two the loop serves
YieldsResponse(fallback_model) ==
    /\ ~get_model_config(config, fallback_model).raised
    /\ get_model_config(config, fallback_model).model_config.provider
           \in {"openrouter", "openai"}

\* the requests whose primary path raised, so that _try_fallback runs
InFallback == { t \in Tasks : generation[t].original_error # None }

\* C26: _try_fallback walks routing_rules.fallback_chain in its configured
\* order and skips the entry equal to the failed request's model_id: the
\* entries it has looked at are a prefix of the chain without that entry, all
\* but the last of them yielded no response; it returns the response of the
\* first entry that yields one, marked neither cache_hit nor unmarked as
\* fallback; and when no entry yields a response it raises an error whose
\* message ends with the original error.
C26_FallbackWalk ==
    \A t \in InFallback :
        LET g == generation[t]
            chain == ChainFor(g.request)
            n == Len(g.walked)
        IN  /\ g.walked = Take(chain, n)
            /\ n <= Len(chain)
            /\ g.request.model_id \notin Range(g.walked)
            /\ \A i \in 1..(n - 1) : ~YieldsResponse(g.walked[i])
            /\ g.pc \in {"post", "done"} =>
                 /\ n > 0
                 /\ YieldsResponse(g.walked[n])
                 /\ g.model_id = g.walked[n]
            /\ g.pc = "done" =>
                 /\ g.result.model_id = g.walked[n]
                 /\ ~g.result.cache_hit
                 /\ g.result.metadata.fallback_used
                 /\ g.result.metadata.fallback_from = g.request.model_id
            /\ g.pc = "raised" =>
                 /\ n = Len(chain)
                 /\ \A i \in 1..n : ~YieldsResponse(g.walked[i])
                 /\ g.error = "All embedding models failed. Original error: "
                                 \o g.original_error

\* a request for the cohere model failed (unsupported provider); the walk
\* passed lambda-embed, skipped cohere-embed and returned what
\* nomic-embed-text-v1.5 answered to one POST
C26_Witness ==
    \E t \in InFallback :
        /\ generation[t].request.model_id = "cohere-embed"
        /\ generation[t].original_error = "Unsupported provider: cohere"
        /\ generation[t].pc = "done"
        /\ generation[t].walked = << "lambda-embed", "nomic-embed-text-v1.5" >>
        /\ generation[t].posts = 1
        /\ ~generation[t].result.metadata.mock
        /\ ~generation[t].result.cache_hit

\* the model a request is resolved to is served by openrouter or by openai
PostsToProvider(request) ==
    /\ ~get_model_config(config, request.model_id).raised
    /\ get_model_config(config, request.model_id).model_config.provider
           \in {"openrouter", "openai"}

\* the entry under a key is a mock response that has not reached the TTL
FreshMock(cache_key) ==
    /\ config.cache_embeddings
    /\ cache_key \in DOMAIN cache
    /\ AgeOf(cache_key) < config.cache_ttl_hours
    /\ cache[cache_key].response.metadata.mock

\* C27: a failed provider call of an openrouter or openai model (no API key,
\* a POST that fails) never reaches the fallback chain. The request ends on
\* its primary path with a mock response (metadata mock = TRUE), which is
\* stored under the request's key when caching is enabled and leaves the cache
\* alone otherwise; and a request that finds such a mock under its key before
\* the TTL is answered with it, cache_hit = TRUE, without a provider call.
C27_FailedCallIsMockedAndCached ==
    /\ [](\A t \in InFallback : ~PostsToProvider(generation[t].request))
    /\ [][ \A t \in Tasks :
             LET g == generation[t]
                 h == generation'[t]
                 missed == /\ g.pc = "idle" /\ h.pc # "idle"
                           /\ PostsToProvider(h.request)
                           /\ ~(config.cache_embeddings /\ h.lookup = "fresh")
                 mocked == /\ h.pc = "done"
                           /\ h.stage = "primary"
                           /\ h.original_error = None
                           /\ h.result.metadata.mock
                           /\ ~h.result.cache_hit
                           /\ IF config.cache_embeddings
                              THEN FreshlyStored(cache', h)
                              ELSE cache' = cache
             IN  /\ (missed /\ ~CanPost(config, environ, h.provider)) =>
                        mocked /\ h.posts = 0
                 /\ (missed /\ CanPost(config, environ, h.provider)) =>
                        h.pc = "post" /\ h.stage = "primary"
                 /\ (g.pc = "post" /\ g.stage = "primary" /\ h.pc # "post") =>
                        /\ h.pc = "done" /\ h.stage = "primary"
                        /\ h.original_error = None
                        /\ h.result.metadata.mock => mocked
                 /\ (g.pc = "idle" /\ h.pc # "idle"
                       /\ FreshMock(h.cache_key)) =>
                        /\ h.pc = "done"
                        /\ h.posts = 0
                        /\ h.stage = None
                        /\ h.result =
                             [ cache[h.cache_key].response EXCEPT
                                  !.cache_hit = TRUE,
                                  !.processing_time_ms = 0 ] ]_vars

\* C27 witness: the POST of a request failed and the request was answered
\* with a mock; the same request, sent again before the TTL, was answered
\* with that mock from the cache, without a POST
C27_Witness ==
    /\ Len(served) >= 2
    /\ config.cache_embeddings
    /\ PostsToProvider(served[1].request)
    /\ served[1].success /\ served[1].posts = 1
    /\ served[1].data.metadata.mock /\ ~served[1].data.cache_hit
    /\ served[2].request = served[1].request
    /\ served[2].at - served[1].at < config.cache_ttl_hours
    /\ served[2].success /\ served[2].posts = 0
    /\ served[2].data.cache_hit /\ served[2].data.metadata.mock
    /\ served[2].data.embeddings = served[1].data.embeddings

\* ------------------------------------------------------------------------
\* Properties of the swarm orchestrator
\* ------------------------------------------------------------------------

\* the nodes of a complete run: the coordinator before every agent and after
\* the last one
RECURSIVE FullWalk(_)
FullWalk(stages) ==
    IF stages = << >> THEN << "coordinator" >>
    ELSE << "coordinator", Head(stages) >> \o FullWalk(Tail(stages))

\* the agent nodes among the nodes a run has executed, in order
AgentsIn(trace) ==
    LET IsAgent(node) == node # "coordinator" IN SelectSeq(trace, IsAgent)

Started == { r \in Runs : swarm[r].pc # "idle" }

RECURSIVE LatestIn(_, _)
LatestIn(order, repo) ==
    IF order = << >> THEN None
    ELSE IF order[Len(order)].repo = repo THEN order[Len(order)].index_id
    ELSE LatestIn(Front(order), repo)

\* what a sequence of publish_index calls stored under an index id
EntryIn(order, index_id) ==
    LET at == { i \in 1..Len(order) : order[i].index_id = index_id }
    IN  IF at = {} THEN NoIndex
        ELSE LET i == CHOOSE i \in at : TRUE
             IN  IndexEntry(order[i].repo, order[i].meta)

\* the publish_index calls whose block has been left
Published ==
    IF _LOCK # Unlocked /\ caller[_LOCK].op = "publish_index"
    THEN Front(lock_order) ELSE lock_order

\* C29: the three functions do their load-modify-save or load-read under the
\* one lock: a thread is inside a block only while it holds the lock. So with
\* publish_index calls of distinct index ids interleaved in any way, the file
\* holds every index published so far (get_index finds each of them) and, for
\* every repo, the index id of the publish_index for it that took the lock
\* last; and latest_index_id and get_index return what the calls that took
\* the lock before them left.
C29_PublishesAreSerialised ==
    /\ \A t \in Threads : caller[t].pc \in {"locked", "loaded"} => _LOCK = t
    /\ \A i \in 1..Len(Published) :
           /\ GetIndex(_load(reg_file).indexes, Published[i].index_id)
                  = IndexEntry(Published[i].repo, Published[i].meta)
           /\ GetIndex(_load(reg_file).indexes, Published[i].index_id)
                  # NoIndex
    /\ DOMAIN _load(reg_file).indexes
           = { Published[i].index_id : i \in 1..Len(Published) }
    /\ \A repo \in Repos :
           Get(_load(reg_file).per_repo_latest, repo)
               = LatestIn(Published, repo)
    /\ \A t \in Threads :
           caller[t].pc \in {"loaded", "done"} =>
               /\ caller[t].op = "latest_index_id" =>
                      caller[t].result = LatestIn(caller[t].seen,
                                                  caller[t].repo)
               /\ caller[t].op = "get_index" =>
                      caller[t].index = EntryIn(caller[t].seen,
                                                caller[t].index_id)

\* C29 witness: two threads published for the same repo, the second thread
\* taking the lock first; both indexes are in the file, and a third thread
\* that asked for the repo's latest index got the id the first thread
\* published
C29_Witness ==
    /\ _LOCK = Unlocked
    /\ Len(lock_order) = 2
    /\ lock_order[1].thread = 2 /\ lock_order[2].thread = 1
    /\ lock_order[1].repo = lock_order[2].repo
    /\ \A t \in Threads : caller[t].pc = "done"
    /\ caller[3].op = "latest_index_id"
    /\ caller[3].repo = lock_order[1].repo
    /\ caller[3].result = IndexIds[1]
    /\ IndexIds[1] \in DOMAIN reg_file.obj.indexes
    /\ IndexIds[2] \in DOMAIN reg_file.obj.indexes

\* ------------------------------------------------------------------------
\* Properties of the secrets server
\* ------------------------------------------------------------------------

\* the service is registered and the secret is in its authorized list
Authorized(service_id, secret_name) ==
    /\ service_id \in DOMAIN authorized_services
    /\ secret_name \in Range(authorized_services[service_id])

\* C30: get_secret returns a value only to a registered service asking for a
\* secret of its authorized list, and then the stored value; any other pair
\* gets None and leaves the audit log as it was; and every authorized
\* request appends exactly one audit entry, the request's, whether or not a
\* value is stored under the name.
C30_OnlyAuthorizedAndAudited ==
    [][ answers' # answers =>
          LET answer == answers'[Len(answers')]
              service_id == answer.service_id
              secret_name == answer.secret_name
              log == secret_store.audit_log
              log_after == secret_store'.audit_log
          IN  /\ answer.value # None =>
                     /\ Authorized(service_id, secret_name)
                     /\ secret_name \in DOMAIN secret_store.secrets
                     /\ answer.value
                            = secret_store.secrets[secret_name].value
              /\ ~Authorized(service_id, secret_name) =>
                     /\ answer.value = None
                     /\ answer.status = 403
                     /\ log_after = log
              /\ Authorized(service_id, secret_name) =>
                     /\ log_after = Append(log, AuditEntry(service_id,
                                                           secret_name))
                     /\ secret_name \notin DOMAIN secret_store.secrets =>
                            answer.value = None
              /\ secret_store'.secrets = secret_store.secrets ]_vars

\* C30 witness: tool-server asked for a stored secret of another service's
\* list and was refused without an audit entry; memory-server asked for
\* REDIS_URL, which is on its list but never stored, got nothing and left
\* one audit entry; then tool-server got its own key
C30_Witness ==
    /\ Len(answers) = 3
    /\ answers[1].service_id = "tool-server"
    /\ answers[1].secret_name = "OPENROUTER_API_KEY"
    /\ "OPENROUTER_API_KEY" \in DOMAIN secret_store.secrets
    /\ answers[1].value = None
    /\ answers[2].service_id = "memory-server"
    /\ answers[2].secret_name = "REDIS_URL"
    /\ answers[2].value = None /\ answers[2].status = 403
    /\ answers[3].service_id = "tool-server"
    /\ answers[3].value = "sk-1" /\ answers[3].status = 200
    /\ secret_store.audit_log
           = << AuditEntry("memory-server", "REDIS_URL"),
                AuditEntry("tool-server", "OPENAI_API_KEY") >>

====
